---------------------------- MODULE Spec2Model ----------------------------
(***************************************************************************)
(* GridMR: the worker task executor, the shuffle-and-sort, the reduce-task *)
(* construction and the final assembly of src/mapreduce/framework.py, the  *)
(* worker's HTTP handler of src/worker/main.py and the program loader of   *)
(* src/mapreduce/program_loader.py.                                        *)
(*                                                                         *)
(* A Python str is a sequence of one-character strings; a text file is the *)
(* sequence of its lines, each without its terminating newline (no key,    *)
(* value or path of the model holds a newline).                            *)
(***************************************************************************)
EXTENDS Integers, Sequences, FiniteSets, TLC

(***************************************************************************)
(* Python str operations                                                   *)
(***************************************************************************)
TAB == "\t"

\* The printable ASCII characters in code-point order: 32 (space) to 95, and
\* 97 to 126 (the grave accent, 96, cannot be written in a TLA+ string).
AsciiLo ==
  << " ", "!", "\"", "#", "$", "%", "&", "'", "(", ")", "*", "+", ",", "-",
     ".", "/", "0", "1", "2", "3", "4", "5", "6", "7", "8", "9", ":", ";",
     "<", "=", ">", "?", "@", "A", "B", "C", "D", "E", "F", "G", "H", "I",
     "J", "K", "L", "M", "N", "O", "P", "Q", "R", "S", "T", "U", "V", "W",
     "X", "Y", "Z", "[", "\\", "]", "^", "_" >>
AsciiHi ==
  << "a", "b", "c", "d", "e", "f", "g", "h", "i", "j", "k", "l", "m", "n",
     "o", "p", "q", "r", "s", "t", "u", "v", "w", "x", "y", "z", "{", "|",
     "}", "~" >>

\* ord(c) and chr(n)
OrdTable ==
  [c \in {TAB} \cup {AsciiLo[i] : i \in 1..Len(AsciiLo)}
          \cup {AsciiHi[i] : i \in 1..Len(AsciiHi)} |->
     IF c = TAB THEN 9
     ELSE IF \E i \in 1..Len(AsciiLo) : AsciiLo[i] = c
          THEN 31 + (CHOOSE i \in 1..Len(AsciiLo) : AsciiLo[i] = c)
          ELSE 96 + (CHOOSE i \in 1..Len(AsciiHi) : AsciiHi[i] = c)]
Ord(c) == OrdTable[c]
Chr(n) == IF n = 9 THEN TAB
          ELSE IF n <= 95 THEN AsciiLo[n - 31] ELSE AsciiHi[n - 96]

IsSpace(c) == c \in {" ", TAB}
IsDigit(c) == c \in {"0", "1", "2", "3", "4", "5", "6", "7", "8", "9"}
IsUpper(c) == Ord(c) >= 65 /\ Ord(c) <= 90
IsLower(c) == Ord(c) >= 97 /\ Ord(c) <= 122
\* \w of the re module, on ASCII text
IsWordChar(c) == IsDigit(c) \/ IsUpper(c) \/ IsLower(c) \/ c = "_"

\* s[i:] and s[:i] with 0-based i, 0 <= i <= len(s)
From(s, i) == SubSeq(s, i + 1, Len(s))
UpTo(s, i) == SubSeq(s, 1, i)

\* s.startswith(p) at 0-based offset i
MatchAt(s, p, i) == /\ i + Len(p) <= Len(s)
                    /\ \A n \in 1..Len(p) : s[i + n] = p[n]

\* s.find(p, i): the first 0-based offset >= i where p occurs, or -1
RECURSIVE Find(_, _, _)
Find(s, p, i) == IF i + Len(p) > Len(s) THEN -1
                 ELSE IF MatchAt(s, p, i) THEN i
                 ELSE Find(s, p, i + 1)

\* p in s
Contains(s, p) == Find(s, p, 0) >= 0

\* s.rfind(p)
RECURSIVE RFindFrom(_, _, _)
RFindFrom(s, p, i) == IF i < 0 THEN -1
                      ELSE IF MatchAt(s, p, i) THEN i
                      ELSE RFindFrom(s, p, i - 1)
RFind(s, p) == RFindFrom(s, p, Len(s) - Len(p))

\* s.replace(old, new): every non-overlapping occurrence, left to right
RECURSIVE Replace(_, _, _)
Replace(s, old, new) ==
  LET i == Find(s, old, 0)
  IN  IF old = << >> \/ i < 0 THEN s
      ELSE UpTo(s, i) \o new \o Replace(From(s, i + Len(old)), old, new)

\* s.split(sep): the list of the pieces between the occurrences of sep
RECURSIVE Split(_, _)
Split(s, sep) ==
  LET i == Find(s, sep, 0)
  IN  IF i < 0 THEN << s >>
      ELSE << UpTo(s, i) >> \o Split(From(s, i + Len(sep)), sep)

\* s.split(sep, 1): at most one split, at the first occurrence of sep
Split1(s, sep) ==
  LET i == Find(s, sep, 0)
  IN  IF i < 0 THEN << s >> ELSE << UpTo(s, i), From(s, i + Len(sep)) >>

\* sep.join(parts)
RECURSIVE Join(_, _)
Join(sep, parts) ==
  IF parts = << >> THEN << >>
  ELSE IF Len(parts) = 1 THEN parts[1]
  ELSE parts[1] \o sep \o Join(sep, Tail(parts))

\* s.lstrip(), s.rstrip(), s.strip(): whitespace off both ends
RECURSIVE LStrip(_)
LStrip(s) == IF s # << >> /\ IsSpace(Head(s)) THEN LStrip(Tail(s)) ELSE s
RECURSIVE RStrip(_)
RStrip(s) == IF s # << >> /\ IsSpace(s[Len(s)])
             THEN RStrip(UpTo(s, Len(s) - 1)) ELSE s
Strip(s) == RStrip(LStrip(s))

\* c.lower() and s.lower()
LowerChar(c) == IF IsUpper(c) THEN Chr(Ord(c) + 32) ELSE c
Lower(s) == [i \in 1..Len(s) |-> LowerChar(s[i])]

\* a < b and a <= b on str: lexicographic by code point
RECURSIVE StrLess(_, _)
StrLess(a, b) ==
  IF b = << >> THEN FALSE
  ELSE IF a = << >> THEN TRUE
  ELSE IF Head(a) # Head(b) THEN Ord(Head(a)) < Ord(Head(b))
  ELSE StrLess(Tail(a), Tail(b))
StrLeq(a, b) == a = b \/ StrLess(a, b)

\* str(n) for an int n, and f"{n:05d}" for n >= 0
DigitChar(d) == Chr(48 + d)
RECURSIVE NatToStr(_)
NatToStr(n) == IF n < 10 THEN << DigitChar(n) >>
               ELSE NatToStr(n \div 10) \o << DigitChar(n % 10) >>
IntToStr(n) == IF n < 0 THEN << "-" >> \o NatToStr(-n) ELSE NatToStr(n)
RECURSIVE ZeroPad(_, _)
ZeroPad(s, width) == IF Len(s) >= width THEN s ELSE ZeroPad(<< "0" >> \o s, width)
Format05d(n) == IF n < 0 THEN << "-" >> \o ZeroPad(NatToStr(0 - n), 4)
                ELSE ZeroPad(NatToStr(n), 5)

\* int(s): [ok |-> TRUE, val |-> n] for an optional sign and a run of decimal
\* digits, whitespace around them ignored; [ok |-> FALSE] (ValueError) otherwise
IsDecimal(s) == s # << >> /\ \A i \in 1..Len(s) : IsDigit(s[i])
RECURSIVE DigitsValue(_)
DigitsValue(s) == IF s = << >> THEN 0
                  ELSE 10 * DigitsValue(UpTo(s, Len(s) - 1))
                       + (Ord(s[Len(s)]) - 48)
ParseInt(s) ==
  LET t == Strip(s)
      signed == t # << >> /\ Head(t) \in {"+", "-"}
      digits == IF signed THEN Tail(t) ELSE t
  IN  IF ~IsDecimal(digits) THEN [ok |-> FALSE, val |-> 0]
      ELSE IF signed /\ Head(t) = "-"
           THEN [ok |-> TRUE, val |-> 0 - DigitsValue(digits)]
      ELSE [ok |-> TRUE, val |-> DigitsValue(digits)]


\* s[:-n] of a list
DropLast(seq, n) == IF Len(seq) <= n THEN << >> ELSE UpTo(seq, Len(seq) - n)

\* A dict: the sequence of its items [k |-> key, v |-> value], in insertion
\* order, no key twice.
DictHas(d, k) == \E i \in 1..Len(d) : d[i].k = k
DictGet(d, k) == d[CHOOSE i \in 1..Len(d) : d[i].k = k].v
\* d[k] = v
DictPut(d, k, v) ==
  IF DictHas(d, k)
  THEN [i \in 1..Len(d) |-> IF d[i].k = k THEN [k |-> k, v |-> v] ELSE d[i]]
  ELSE Append(d, [k |-> k, v |-> v])

(***************************************************************************)
(* os.path (posixpath) and the file system                                 *)
(***************************************************************************)
SLASH == << "/" >>

\* os.path.join(a, b)
PathJoin2(a, b) ==
  IF b # << >> /\ Head(b) = "/" THEN b
  ELSE IF a = << >> \/ a[Len(a)] = "/" THEN a \o b
  ELSE a \o SLASH \o b
\* os.path.join(a, *parts)
RECURSIVE PathJoin(_, _)
PathJoin(a, parts) ==
  IF parts = << >> THEN a ELSE PathJoin(PathJoin2(a, Head(parts)), Tail(parts))

\* os.path.basename(p)
Basename(p) == From(p, RFind(p, SLASH) + 1)

\* os.path.dirname(p)
RECURSIVE RStripSlash(_)
RStripSlash(s) == IF s # << >> /\ s[Len(s)] = "/"
                  THEN RStripSlash(UpTo(s, Len(s) - 1)) ELSE s
Dirname(p) ==
  LET head == UpTo(p, RFind(p, SLASH) + 1)
  IN  IF RStripSlash(head) = << >> THEN head ELSE RStripSlash(head)

\* A file system: the regular text files by path, each the sequence of its
\* lines.  Directories are implicit: os.makedirs(..., exist_ok=True) always
\* succeeds and creates no file.
Exists(files, path) == path \in DOMAIN files
\* (a variant that opens the file for appending)
WriteFile_append(files, path, lines) ==
  [q \in DOMAIN files \cup {path} |->
     IF q = path THEN (IF path \in DOMAIN files THEN files[path] ELSE << >>) \o lines
     ELSE files[q]]
\* open(path, "w") ... write each line ... close: truncates and rewrites
WriteFile(files, path, lines) ==
  [q \in DOMAIN files \cup {path} |-> IF q = path THEN lines ELSE files[q]]

(***************************************************************************)
(* KeyValue and hash()                                                     *)
(***************************************************************************)
\* KeyValue(key=k, value=v).  The framework reads both fields only through
\* str() (the f-strings of the writers, str(kv.key) of the sorts and of the
\* partitioner), so a field holds the str() of the Python object.
KeyValue(k, v) == [key |-> k, value |-> v]

\* f"{kv.key}\t{kv.value}\n", as one line of a file
KVLine(kv) == kv.key \o << TAB >> \o kv.value

\* hash(s) of a str in a Python process.  CPython keys the str hash with a
\* per-process random seed (PYTHONHASHSEED is set nowhere in the repository):
\* a fixed function of the string within one process, another function in
\* another process.  The model's stand-in is a seeded polynomial hash wrapped
\* to a signed machine word.
HashWord == 2 ^ 16
RECURSIVE PolyHash(_, _)
PolyHash(h, s) ==
  IF s = << >> THEN h
  ELSE PolyHash((h * 31 + Ord(Head(s))) % HashWord, Tail(s))
PyHash(seed, s) ==
  LET u == PolyHash(seed, s)
  IN  IF u >= HashWord \div 2 THEN u - HashWord ELSE u

\* KeyPartitioner(num_partitions=4)
NumPartitions == 4

\* KeyPartitioner.get_partition(key), in the process whose hash seed is seed
get_partition_nomod(seed, key) == PyHash(seed, key)
get_partition(seed, key) == PyHash(seed, key) % NumPartitions

(***************************************************************************)
(* Mapper and Reducer classes                                              *)
(***************************************************************************)
\* re.findall(r"\b\w+\b", text): the maximal runs of word characters of text
\* from 1-based position i on, cur being the run in progress
RECURSIVE WordRuns(_, _, _)
WordRuns(s, i, cur) ==
  IF i > Len(s) THEN (IF cur = << >> THEN << >> ELSE << cur >>)
  ELSE IF IsWordChar(s[i]) THEN WordRuns(s, i + 1, Append(cur, s[i]))
  ELSE (IF cur = << >> THEN << >> ELSE << cur >>) \o WordRuns(s, i + 1, << >>)
FindWords(text) == WordRuns(text, 1, << >>)

IsAlpha(c) == IsUpper(c) \/ IsLower(c)
AllAlpha(w) == \A i \in 1..Len(w) : IsAlpha(w[i])
\* re.findall(r"\b[a-zA-Z]+\b", text): the runs of word characters that are
\* letters only (a letter next to a digit or "_" is at no word boundary)
RECURSIVE AlphaOnly(_)
AlphaOnly(words) ==
  IF words = << >> THEN << >>
  ELSE (IF AllAlpha(Head(words)) THEN << Head(words) >> ELSE << >>)
       \o AlphaOnly(Tail(words))
FindAlphaWords(text) == AlphaOnly(FindWords(text))
\* [c for c in s if c.isalpha()]
RECURSIVE AlphaChars(_)
AlphaChars(s) ==
  IF s = << >> THEN << >>
  ELSE (IF IsAlpha(Head(s)) THEN << Head(s) >> ELSE << >>) \o AlphaChars(Tail(s))

ONE == << "1" >>

\* What a call of map() or reduce() does: the pairs it yields, and whether it
\* raises (after yielding them).
Yields(out) == [raised |-> FALSE, out |-> out]
Raises(out) == [raised |-> TRUE, out |-> out]

\* The classes, by qualified name.
RegWordCountMapper == "examples.mapreduce_jobs.WordCountMapper"
RegWordCountReducer == "examples.mapreduce_jobs.WordCountReducer"
RegCharacterCountMapper == "examples.mapreduce_jobs.CharacterCountMapper"
RegCharacterCountReducer == "examples.mapreduce_jobs.CharacterCountReducer"
RegLineLengthMapper == "examples.mapreduce_jobs.LineLengthMapper"
RegAverageLengthReducer == "examples.mapreduce_jobs.AverageLengthReducer"
ProgWordCountMapper == "programs.wordcount_mapper.WordCountMapper"
ProgWordCountReducer == "programs.wordcount_reducer.WordCountReducer"
\* Two classes of a user's program file: a mapper that emits the line
\* "<k>=<v>" as (k, v) and raises ValueError on a line without "=", and a
\* reducer that emits (key, "+".join(values)).
UserPairMapper == "user.PairMapper"
UserJoinReducer == "user.JoinReducer"

\* WordCountMapper.map of examples/mapreduce_jobs.py
WordCountMapper_map(key, value) ==
  LET words == FindWords(Lower(value))
  IN  Yields([i \in 1..Len(words) |-> KeyValue(words[i], ONE)])

\* WordCountMapper.map of programs/wordcount_mapper.py
ProgWordCountMapper_map(key, value) ==
  LET words == FindAlphaWords(Lower(value))
  IN  Yields([i \in 1..Len(words) |-> KeyValue(words[i], ONE)])

\* CharacterCountMapper.map
CharacterCountMapper_map(key, value) ==
  LET chars == AlphaChars(Lower(value))
  IN  Yields([i \in 1..Len(chars) |-> KeyValue(<< chars[i] >>, ONE)])

\* LineLengthMapper.map
LineLengthMapper_map(key, value) ==
  Yields(<< KeyValue(<< "l", "i", "n", "e", "_", "l", "e", "n", "g", "t", "h" >>,
                     IntToStr(Len(value))) >>)

\* PairMapper.map of the user's program
PairMapper_map(key, value) ==
  LET parts == Split1(value, << "=" >>)
  IN  IF Len(parts) < 2 THEN Raises(<< >>)
      ELSE Yields(<< KeyValue(parts[1], parts[2]) >>)

\* A user's mapper that emits the pair it is given: (key, value)
UserNumberMapper == "user.NumberMapper"
NumberMapper_map(key, value) == Yields(<< KeyValue(IntToStr(key), value) >>)

\* mapper.map(key, value) of an instance of class cls
mapper_map(cls, key, value) ==
  CASE cls = RegWordCountMapper -> WordCountMapper_map(key, value)
    [] cls = UserNumberMapper -> NumberMapper_map(key, value)
    [] cls = ProgWordCountMapper -> ProgWordCountMapper_map(key, value)
    [] cls = RegCharacterCountMapper -> CharacterCountMapper_map(key, value)
    [] cls = RegLineLengthMapper -> LineLengthMapper_map(key, value)
    [] cls = UserPairMapper -> PairMapper_map(key, value)

\* sum(int(v) for v in values): [ok |-> FALSE] (ValueError) when int()
\* rejects a value
RECURSIVE SumInts(_)
SumInts(values) ==
  IF values = << >> THEN [ok |-> TRUE, val |-> 0]
  ELSE LET n == ParseInt(Head(values))
           rest == SumInts(Tail(values))
       IN  IF n.ok /\ rest.ok THEN [ok |-> TRUE, val |-> n.val + rest.val]
           ELSE [ok |-> FALSE, val |-> 0]

\* WordCountReducer.reduce and CharacterCountReducer.reduce of
\* examples/mapreduce_jobs.py
WordCountReducer_reduce(key, values) ==
  LET total == SumInts(values)
  IN  IF ~total.ok THEN Raises(<< >>)
      ELSE Yields(<< KeyValue(key, IntToStr(total.val)) >>)

\* The sum of the values int() accepts (the others are skipped)
RECURSIVE SumValidInts(_)
SumValidInts(values) ==
  IF values = << >> THEN 0
  ELSE LET n == ParseInt(Head(values))
       IN  (IF n.ok THEN n.val ELSE 0) + SumValidInts(Tail(values))

\* WordCountReducer.reduce of programs/wordcount_reducer.py
ProgWordCountReducer_reduce(key, values) ==
  LET total_count == SumValidInts(values)
  IN  IF total_count > 0 THEN Yields(<< KeyValue(key, IntToStr(total_count)) >>)
      ELSE Yields(<< >>)

\* JoinReducer.reduce of the user's program
JoinReducer_reduce(key, values) ==
  Yields(<< KeyValue(key, Join(<< "+" >>, values)) >>)

\* reducer.reduce(key, iter(values)) of an instance of class cls
reducer_reduce(cls, key, values) ==
  CASE cls = RegWordCountReducer -> WordCountReducer_reduce(key, values)
    [] cls = RegCharacterCountReducer -> WordCountReducer_reduce(key, values)
    [] cls = ProgWordCountReducer -> ProgWordCountReducer_reduce(key, values)
    [] cls = UserJoinReducer -> JoinReducer_reduce(key, values)

(***************************************************************************)
(* mapreduce/types.py                                                      *)
(***************************************************************************)
\* Optional[T]: << >> is None, << x >> is the value x.
None == << >>
Some(x) == << x >>

PENDING == "PENDING"
RUNNING == "RUNNING"
COMPLETED == "COMPLETED"
FAILED == "FAILED"
MAP == "MAP"
REDUCE == "REDUCE"

\* (a variant in which a failure leaves the status the result was created
\* with)
TaskResult_keepsRunning(task_id, task_type, status, output_files, error_message, worker_id) ==
  [task_id |-> task_id, task_type |-> task_type,
   status |-> IF status = FAILED THEN RUNNING ELSE status,
   output_files |-> output_files, error_message |-> error_message,
   worker_id |-> worker_id]
\* TaskResult (execution_time, a wall-clock duration, is left out)
TaskResult(task_id, task_type, status, output_files, error_message, worker_id) ==
  [task_id |-> task_id, task_type |-> task_type, status |-> status,
   output_files |-> output_files, error_message |-> error_message,
   worker_id |-> worker_id]

(***************************************************************************)
(* TaskTracker.execute_map_task                                            *)
(***************************************************************************)
SharedRoot == << "/", "s", "h", "a", "r", "e", "d", "/", "g", "r", "i", "d", "m", "r" >>
DefaultMount == << "/", "m", "n", "t", "/", "g", "r", "i", "d", "m", "r" >>
S_jobs == << "j", "o", "b", "s" >>
S_intermediate == << "i", "n", "t", "e", "r", "m", "e", "d", "i", "a", "t", "e" >>
S_map == << "m", "a", "p" >>
S_shuffled == << "s", "h", "u", "f", "f", "l", "e", "d" >>
S_reduce == << "r", "e", "d", "u", "c", "e" >>
S_part == << "_", "p", "a", "r", "t", "_" >>
S_txt == << ".", "t", "x", "t" >>
UNDERSCORE == << "_" >>

\* path.replace("/shared/gridmr", self.nfs_mount) if self.use_nfs else path
ToLocal(w, path) == IF w.use_nfs THEN Replace(path, SharedRoot, w.nfs_mount) ELSE path
\* path.replace(self.nfs_mount, "/shared/gridmr") if self.use_nfs else path
ToServer(w, path) == IF w.use_nfs THEN Replace(path, w.nfs_mount, SharedRoot) ELSE path

\* "_".join(task_id.split("_")[:-2])
JobIdOf(task_id) == Join(UNDERSCORE, DropLast(Split(task_id, UNDERSCORE), 2))

\* lines[start:end] of Python, for any integers start and end
SliceIndex(n, i) == IF i < 0 THEN (IF n + i < 0 THEN 0 ELSE n + i)
                    ELSE IF i > n THEN n ELSE i
PySlice(lines, start, end) ==
  LET a == SliceIndex(Len(lines), start)
      b == SliceIndex(Len(lines), end)
  IN  IF a >= b THEN << >> ELSE SubSeq(lines, a + 1, b)

\* kvs.sort(key=lambda x: str(x.key)): stable, ascending by the key string.
\* InsertKV puts kv after every element whose key is <= its key.
RECURSIVE InsertKV(_, _)
InsertKV(sorted, kv) ==
  IF sorted = << >> THEN << kv >>
  ELSE IF StrLess(kv.key, Head(sorted).key) THEN << kv >> \o sorted
  ELSE << Head(sorted) >> \o InsertKV(Tail(sorted), kv)
RECURSIVE SortByKey_unstable(_)
SortByKey_unstable(kvs) ==
  IF kvs = << >> THEN << >>
  ELSE InsertKV(SortByKey_unstable(Tail(kvs)), Head(kvs))
RECURSIVE SortByKey(_)
SortByKey(kvs) ==
  IF kvs = << >> THEN << >>
  ELSE InsertKV(SortByKey(DropLast(kvs, 1)), kvs[Len(kvs)])

\* The loop "for line_num, line in enumerate(lines, start): for kv in
\* mapper.map(line_num, line.strip())": every pair yielded, in order, and
\* whether a call raised (the loop ends there).
RECURSIVE MapLines(_, _, _)
MapLines(cls, lines, line_num) ==
  IF lines = << >> THEN Yields(<< >>)
  ELSE LET r == mapper_map(cls, line_num, Strip(Head(lines)))
       IN  IF r.raised THEN r
           ELSE LET rest == MapLines(cls, Tail(lines), line_num + 1)
                IN  [raised |-> rest.raised, out |-> r.out \o rest.out]

\* The keys of the dict "partitions", in insertion order: the partitions of
\* the pairs in order of first appearance
RECURSIVE PartitionOrder(_, _, _)
PartitionOrder(seed, kvs, seen) ==
  IF kvs = << >> THEN seen
  ELSE LET q == get_partition(seed, Head(kvs).key)
       IN  PartitionOrder(seed, Tail(kvs),
                          IF \E i \in 1..Len(seen) : seen[i] = q
                          THEN seen ELSE Append(seen, q))
\* partitions[q]: the pairs of partition q, in order of emission
RECURSIVE Bucket(_, _, _)
Bucket(seed, kvs, q) ==
  IF kvs = << >> THEN << >>
  ELSE (IF get_partition(seed, Head(kvs).key) = q THEN << Head(kvs) >> ELSE << >>)
       \o Bucket(seed, Tail(kvs), q)

\* f"map_{task.task_id}_part_{partition_id}.txt"
MapFileName(task_id, partition_id) ==
  S_map \o UNDERSCORE \o task_id \o S_part \o IntToStr(partition_id) \o S_txt

\* os.path.join(output_dir, "jobs", job_id, "intermediate", "map")
IntermediateMapDir(output_dir, job_id) ==
  PathJoin(output_dir, << S_jobs, job_id, S_intermediate, S_map >>)

\* The loop that writes the partition files: the file system after it
RECURSIVE WritePartitions(_, _, _, _, _, _)
WritePartitions(files, seed, kvs, dir, task_id, order) ==
  IF order = << >> THEN files
  ELSE WritePartitions(
         WriteFile(files, PathJoin2(dir, MapFileName(task_id, Head(order))),
                   LET b == SortByKey(Bucket(seed, kvs, Head(order)))
                   IN  [i \in 1..Len(b) |-> KVLine(b[i])]),
         seed, kvs, dir, task_id, Tail(order))

\* An exception's str(e), abstracted to the exception's name.
FileNotFoundError == "FileNotFoundError"
UserCodeError == "user code raised"

\* TaskTracker.execute_map_task(task, mapper_class) on worker w:
\* [files |-> the file system afterwards, result |-> the TaskResult,
\* emitted |-> the records the mapper gave to the collector]
execute_map_task(w, files, task, mapper_class) ==
  LET input_file == ToLocal(w, task.input_file)
      output_dir == ToLocal(w, task.output_dir)
      job_id == JobIdOf(task.task_id)
      dir == IntermediateMapDir(output_dir, job_id)
      failed(msg) ==
        [files |-> files, emitted |-> << >>,
         result |-> TaskResult(task.task_id, MAP, FAILED, << >>, Some(msg),
                               w.worker_id)]
  IN  IF ~Exists(files, input_file) THEN failed(FileNotFoundError)
      ELSE
        LET all == files[input_file]
            start == task.split_start
            end == IF task.split_end = None \/ task.split_end = Some(0)
                   THEN Len(all) ELSE task.split_end[1]
            lines == PySlice(all, start, end)
            \* the partition files are written, one per partition in order
            write(emitted, order) ==
              [files |-> WritePartitions(files, w.seed, emitted, dir,
                                         task.task_id, order),
               emitted |-> emitted,
               result |->
                 TaskResult(task.task_id, MAP, COMPLETED,
                            [i \in 1..Len(order) |->
                               ToServer(w, PathJoin2(dir,
                                 MapFileName(task.task_id, order[i])))],
                            None, w.worker_id)]
            \* emitted: what the loop over the lines gave
            partition(emitted) ==
              IF emitted.raised THEN failed(UserCodeError)
              ELSE write(emitted.out, PartitionOrder(w.seed, emitted.out, << >>))
        IN  partition(MapLines(mapper_class, lines, start))

(***************************************************************************)
(* ShuffleSorter.shuffle_and_sort                                          *)
(***************************************************************************)
\* "for line in f: parts = line.strip().split("\t", 1); if len(parts) == 2:
\* all_kvs.append(KeyValue(key, value))" over the lines of one file
RECURSIVE ParseKVLines(_)
ParseKVLines(lines) ==
  IF lines = << >> THEN << >>
  ELSE LET parts == Split1(Strip(Head(lines)), << TAB >>)
       IN  (IF Len(parts) = 2 THEN << KeyValue(parts[1], parts[2]) >> ELSE << >>)
           \o ParseKVLines(Tail(lines))

\* Phase 1: the pairs of the files that exist, in the order of the list; a
\* file that does not exist is skipped with a warning
\* (a variant that stops reading at the first file that does not exist)
RECURSIVE CollectKVs_stopAtMissing(_, _)
CollectKVs_stopAtMissing(files, mapped_files) ==
  IF mapped_files = << >> \/ ~Exists(files, Head(mapped_files)) THEN << >>
  ELSE ParseKVLines(files[Head(mapped_files)])
       \o CollectKVs_stopAtMissing(files, Tail(mapped_files))
RECURSIVE CollectKVs(_, _)
CollectKVs(files, mapped_files) ==
  IF mapped_files = << >> THEN << >>
  ELSE (IF Exists(files, Head(mapped_files))
        THEN ParseKVLines(files[Head(mapped_files)]) ELSE << >>)
       \o CollectKVs(files, Tail(mapped_files))

\* key_groups[key]: the values of key, in the order of the sorted pairs
RECURSIVE GroupValues(_, _)
GroupValues(kvs, key) ==
  IF kvs = << >> THEN << >>
  ELSE (IF Head(kvs).key = key THEN << Head(kvs).value >> ELSE << >>)
       \o GroupValues(Tail(kvs), key)

\* sorted(key_groups.keys()): the distinct keys, ascending
RECURSIVE InsertKey(_, _)
InsertKey(sorted, key) ==
  IF sorted = << >> THEN << key >>
  ELSE IF key = Head(sorted) THEN sorted
  ELSE IF StrLess(key, Head(sorted)) THEN << key >> \o sorted
  ELSE << Head(sorted) >> \o InsertKey(Tail(sorted), key)
\* (a variant that keeps one entry per pair instead of one per key)
RECURSIVE SortedKeys_perPair(_)
SortedKeys_perPair(kvs) ==
  IF kvs = << >> THEN << >>
  ELSE LET rest == SortedKeys_perPair(Tail(kvs))
       IN  IF rest # << >> /\ StrLess(Head(rest), Head(kvs).key)
           THEN << Head(rest), Head(kvs).key >> \o Tail(rest)
           ELSE << Head(kvs).key >> \o rest
RECURSIVE SortedKeys(_)
SortedKeys(kvs) ==
  IF kvs = << >> THEN << >>
  ELSE InsertKey(SortedKeys(Tail(kvs)), Head(kvs).key)

\* f"{key}\t{values_str}\n" with values_str = ",".join(str(v) for v in values)
ShuffledLine(key, values) == key \o << TAB >> \o Join(<< "," >>, values)

\* ShuffleSorter.shuffle_and_sort(intermediate_files, partition_id,
\* output_file) on worker w: [files |-> the file system afterwards,
\* ret |-> the path returned]
shuffle_and_sort(w, files, intermediate_files, partition_id, output_file) ==
  LET mapped_files == [i \in 1..Len(intermediate_files) |->
                         ToLocal(w, intermediate_files[i])]
      mapped_output == ToLocal(w, output_file)
      all_kvs == SortByKey(CollectKVs(files, mapped_files))
      keys == SortedKeys(all_kvs)
  IN  [files |-> WriteFile(files, mapped_output,
                   [i \in 1..Len(keys) |->
                      ShuffledLine(keys[i], GroupValues(all_kvs, keys[i]))]),
       ret |-> IF w.use_nfs THEN output_file ELSE mapped_output]

(***************************************************************************)
(* TaskTracker.execute_reduce_task                                         *)
(***************************************************************************)
\* f"shuffled_part_{task.partition_id}.txt"
ShuffledFileName(partition_id) ==
  S_shuffled \o S_part \o IntToStr(partition_id) \o S_txt
\* (a variant without the zero padding)
PartFileName_unpadded(partition_id) ==
  << "p", "a", "r", "t", "-" >> \o IntToStr(partition_id) \o S_txt
\* f"part-{task.partition_id:05d}.txt"
PartFileName(partition_id) ==
  << "p", "a", "r", "t", "-" >> \o Format05d(partition_id) \o S_txt

\* The loop over the lines of the shuffled file: [raised |-> whether a call
\* of reduce() raised (the loop ends there), out |-> the lines written to the
\* output file, calls |-> the number of calls of reducer.reduce]
RECURSIVE ReduceLines(_, _)
ReduceLines(cls, lines) ==
  IF lines = << >> THEN [raised |-> FALSE, out |-> << >>, calls |-> 0]
  ELSE LET parts == Split1(Strip(Head(lines)), << TAB >>)
       IN  IF Len(parts) # 2 THEN ReduceLines(cls, Tail(lines))
           ELSE
             LET values == IF parts[2] # << >> THEN Split(parts[2], << "," >>)
                           ELSE << >>
                 written(out) == [i \in 1..Len(out) |-> KVLine(out[i])]
                 next(r) ==
                   IF r.raised
                   THEN [raised |-> TRUE, out |-> written(r.out), calls |-> 1]
                   ELSE LET rest == ReduceLines(cls, Tail(lines))
                        IN  [raised |-> rest.raised,
                             out |-> written(r.out) \o rest.out,
                             calls |-> 1 + rest.calls]
             IN  next(reducer_reduce(cls, parts[1], values))

\* TaskTracker.execute_reduce_task(task, reducer_class) on worker w:
\* [files |-> the file system afterwards, result |-> the TaskResult,
\*  calls |-> the number of calls of reducer.reduce]
execute_reduce_task(w, files, task, reducer_class) ==
  LET input_files == [i \in 1..Len(task.input_files) |->
                        ToLocal(w, task.input_files[i])]
      output_file == ToLocal(w, task.output_file)
      job_id == JobIdOf(task.task_id)
      base_dir == Dirname(Dirname(output_file))
      shuffle_output_file ==
        PathJoin(base_dir, << S_jobs, job_id, S_intermediate, S_shuffled,
                              ShuffledFileName(task.partition_id) >>)
      final_output_file ==
        PathJoin(base_dir, << S_jobs, job_id, S_intermediate, S_reduce,
                              PartFileName(task.partition_id) >>)
      \* red: what the loop over the shuffled lines gave; the lines written
      \* before an exception stay in the output file
      finish(shuffled, output, red) ==
        [files |-> WriteFile(shuffled, output, red.out), calls |-> red.calls,
         result |->
           IF red.raised
           THEN TaskResult(task.task_id, REDUCE, FAILED, << >>,
                           Some(UserCodeError), w.worker_id)
           ELSE TaskResult(task.task_id, REDUCE, COMPLETED,
                           << ToServer(w, output) >>, None, w.worker_id)]
      \* sh: what shuffle_and_sort did
      reduce(sh) ==
        finish(sh.files, final_output_file,
               ReduceLines(reducer_class, sh.files[ToLocal(w, sh.ret)]))
  IN  reduce(shuffle_and_sort(w, files, input_files, task.partition_id,
                              shuffle_output_file))

(***************************************************************************)
(* ProgramLoader (mapreduce/program_loader.py)                             *)
(***************************************************************************)
\* A loaded Python module is the sequence of the classes visible in it, in
\* declaration order: [name |-> the class name, base |-> "Mapper", "Reducer"
\* or "object", here |-> whether the class is defined in this module (not
\* imported into it), cls |-> the class].
ClassDecl(name, base, here, cls) ==
  [name |-> name, base |-> base, here |-> here, cls |-> cls]

S_PairMapper == << "P", "a", "i", "r", "M", "a", "p", "p", "e", "r" >>
S_JoinReducer == << "J", "o", "i", "n", "R", "e", "d", "u", "c", "e", "r" >>
S_Mapper == << "M", "a", "p", "p", "e", "r" >>
S_Reducer == << "R", "e", "d", "u", "c", "e", "r" >>
S_Helper == << "H", "e", "l", "p", "e", "r" >>
S_mapper == << "m", "a", "p", "p", "e", "r" >>
S_reducer == << "r", "e", "d", "u", "c", "e", "r" >>

\* The program files of the model, by local path: a user's program with a
\* mapper and a reducer, a file that defines neither, and a program that
\* declares two mappers (ZetaMapper, then AlphaMapper) and two reducers
\* (SumReducer, then AvgReducer).
UserProgramPath == << "/", "u", "/", "p", "a", "i", "r", ".", "p", "y" >>
NoClassProgramPath == << "/", "u", "/", "l", "i", "b", ".", "p", "y" >>
TwoClassProgramPath == << "/", "u", "/", "t", "w", "o", ".", "p", "y" >>
ProgramStore ==
  (TwoClassProgramPath :>
     << ClassDecl(S_Mapper, "object", FALSE, "mapreduce.framework.Mapper"),
        ClassDecl(S_Reducer, "object", FALSE, "mapreduce.framework.Reducer"),
        ClassDecl(<< "Z", "e", "t", "a", "M", "a", "p", "p", "e", "r" >>,
                  "Mapper", TRUE, "user.ZetaMapper"),
        ClassDecl(<< "A", "l", "p", "h", "a", "M", "a", "p", "p", "e", "r" >>,
                  "Mapper", TRUE, "user.AlphaMapper"),
        ClassDecl(<< "S", "u", "m", "R", "e", "d", "u", "c", "e", "r" >>,
                  "Reducer", TRUE, "user.SumReducer"),
        ClassDecl(<< "A", "v", "g", "R", "e", "d", "u", "c", "e", "r" >>,
                  "Reducer", TRUE, "user.AvgReducer") >>) @@
  (UserProgramPath :>
     << ClassDecl(S_Mapper, "object", FALSE, "mapreduce.framework.Mapper"),
        ClassDecl(S_Reducer, "object", FALSE, "mapreduce.framework.Reducer"),
        ClassDecl(S_PairMapper, "Mapper", TRUE, UserPairMapper),
        ClassDecl(S_JoinReducer, "Reducer", TRUE, UserJoinReducer) >>)
  @@ (NoClassProgramPath :>
     << ClassDecl(S_Helper, "object", TRUE, "user.Helper") >>)

\* urlparse(url), for a URL without params, query and fragment:
\* [scheme, netloc, path]
IsSchemeChar(c) == IsAlpha(c) \/ IsDigit(c) \/ c \in {"+", "-", "."}
UrlParse(url) ==
  LET i == Find(url, << ":" >>, 0)
      has_scheme == /\ i > 0
                    /\ IsAlpha(url[1])
                    /\ \A j \in 1..i : IsSchemeChar(url[j])
      scheme == IF has_scheme THEN Lower(UpTo(url, i)) ELSE << >>
      rest == IF has_scheme THEN From(url, i + 1) ELSE url
      has_netloc == MatchAt(rest, << "/", "/" >>, 0)
      after == From(rest, 2)
      k == Find(after, SLASH, 0)
  IN  [scheme |-> scheme,
       netloc |-> IF ~has_netloc THEN << >>
                  ELSE IF k < 0 THEN after ELSE UpTo(after, k),
       path |-> IF ~has_netloc THEN rest
                ELSE IF k < 0 THEN << >> ELSE From(after, k)]

S_file == << "f", "i", "l", "e" >>
S_nfs == << "n", "f", "s" >>
S_http == << "h", "t", "t", "p" >>
S_https == << "h", "t", "t", "p", "s" >>
S_httpPrefix == << "h", "t", "t", "p", ":", "/", "/" >>
S_httpsPrefix == << "h", "t", "t", "p", "s", ":", "/", "/" >>

\* ProgramLoader._get_local_file_path(program_url), the loader's mount being
\* nfs_mount: [ok |-> FALSE] when the download of an http(s) URL fails (no
\* HTTP server is part of the model), else [ok |-> TRUE, path |-> ...]
get_local_file_path(nfs_mount, program_url) ==
  LET by_scheme(parsed) ==
        IF parsed.scheme = S_file THEN [ok |-> TRUE, path |-> parsed.path]
        ELSE IF parsed.scheme = S_nfs
             THEN [ok |-> TRUE,
                   path |-> Replace(parsed.path, SharedRoot, nfs_mount)]
        ELSE IF parsed.scheme \in {S_http, S_https}
             THEN [ok |-> FALSE, path |-> << >>]
        ELSE [ok |-> TRUE, path |-> program_url]
  IN  by_scheme(UrlParse(program_url))

\* inspect.getmembers(module, inspect.isclass): the classes sorted by name
RECURSIVE InsertDecl(_, _)
InsertDecl(sorted, d) ==
  IF sorted = << >> THEN << d >>
  ELSE IF StrLess(d.name, Head(sorted).name) THEN << d >> \o sorted
  ELSE << Head(sorted) >> \o InsertDecl(Tail(sorted), d)
RECURSIVE GetMembers(_)
GetMembers(module) ==
  IF module = << >> THEN << >>
  ELSE InsertDecl(GetMembers(Tail(module)), Head(module))

\* found_classes of ProgramLoader._find_program_class(module, program_type)
RECURSIVE FoundClasses(_, _)
FoundClasses(members, target_base) ==
  IF members = << >> THEN << >>
  ELSE (IF Head(members).base = target_base /\ Head(members).here
        THEN << Head(members).cls >> ELSE << >>)
       \o FoundClasses(Tail(members), target_base)

\* (a variant that keys the cache by the URL alone)
CacheKey_urlOnly(program_url, program_type) == program_url
\* f"{program_url}_{program_type}"
CacheKey(program_url, program_type) == program_url \o UNDERSCORE \o program_type

ImportError == "ImportError"
SyntaxError == "SyntaxError"
DownloadError == "URLError"

\* ProgramLoader.load_program_from_url(program_url, program_type), with the
\* cache loaded_modules: [ok |-> whether a class is returned, cls |-> the
\* class, error |-> the exception otherwise, loaded_modules |-> the cache
\* afterwards, read |-> whether the call went on to locate and load the file]
load_program_from_url(nfs_mount, loaded_modules, files, program_url, program_type) ==
  LET cache_key == CacheKey(program_url, program_type)
      fail(e) == [ok |-> FALSE, cls |-> "", error |-> e, read |-> TRUE,
                  loaded_modules |-> loaded_modules]
      \* "if not found_classes: raise ImportError(...)", else the first class
      \* found is cached and returned
      first_of(found) ==
        IF found = << >> THEN fail(ImportError)
        ELSE [ok |-> TRUE, cls |-> found[1], error |-> "", read |-> TRUE,
              loaded_modules |-> DictPut(loaded_modules, cache_key, found[1])]
      \* the module at the local path is loaded and searched; a file that
      \* is not named *.py has no loader (spec is None), and the other
      \* files of the storage are not Python programs
      load_from(local) ==
        IF ~local.ok THEN fail(DownloadError)
        ELSE IF local.path \notin DOMAIN ProgramStore
             THEN fail(IF ~Exists(files, local.path) THEN FileNotFoundError
                       ELSE IF /\ Len(local.path) >= 3
                               /\ MatchAt(local.path, << ".", "p", "y" >>,
                                          Len(local.path) - 3)
                       THEN SyntaxError ELSE ImportError)
        ELSE first_of(FoundClasses(GetMembers(ProgramStore[local.path]),
                                   IF program_type = S_mapper THEN "Mapper"
                                   ELSE "Reducer"))
  IN  IF DictHas(loaded_modules, cache_key)
      THEN [ok |-> TRUE, cls |-> DictGet(loaded_modules, cache_key), error |-> "",
            read |-> FALSE, loaded_modules |-> loaded_modules]
      ELSE load_from(get_local_file_path(nfs_mount, program_url))

(***************************************************************************)
(* Worker (worker/main.py)                                                 *)
(***************************************************************************)
S_wordcount == << "w", "o", "r", "d", "c", "o", "u", "n", "t" >>
S_charcount == << "c", "h", "a", "r", "c", "o", "u", "n", "t" >>
S_linelength == << "l", "i", "n", "e", "l", "e", "n", "g", "t", "h" >>
S_unknown == << "u", "n", "k", "n", "o", "w", "n" >>

\* (a variant that always gives the default)
MapperRegistryGet_default(job_type) == RegWordCountMapper
\* MAPPER_REGISTRY.get(job_type, MAPPER_REGISTRY["wordcount"])
MapperRegistryGet(job_type) ==
  IF job_type = S_charcount THEN RegCharacterCountMapper
  ELSE IF job_type = S_linelength THEN RegLineLengthMapper
  ELSE RegWordCountMapper
\* REDUCER_REGISTRY.get(job_type, REDUCER_REGISTRY["wordcount"])
ReducerRegistryGet(job_type) ==
  IF job_type = S_charcount THEN RegCharacterCountReducer
  ELSE IF job_type = S_linelength THEN RegAverageLengthReducer
  ELSE RegWordCountReducer

\* Worker.load_user_class(code_content, class_type), class_type being
\* "Mapper" or "Reducer": [cls |-> the class returned, loaded |-> whether the
\* program loader returned it (FALSE: the registry fallback did), error |->
\* the loader's exception, loaded_modules |-> the loader's cache afterwards]
load_user_class(w, loaded_modules, files, code_content, class_type) ==
  LET program_type == IF class_type = "Mapper" THEN S_mapper ELSE S_reducer
      \* ....split("/")[-1]
      last_of(pieces) == pieces[Len(pieces)]
      \* the registry's class for job_type
      registry(job_type) ==
        IF class_type = "Mapper" THEN MapperRegistryGet(job_type)
        ELSE ReducerRegistryGet(job_type)
      \* r: what the program loader did; the "except Exception" branch falls
      \* back to the registry
      try(r) ==
        IF r.ok
        THEN [cls |-> r.cls, loaded |-> TRUE, error |-> "",
              loaded_modules |-> r.loaded_modules]
        ELSE [cls |-> registry(last_of(Split(
                        Replace(Replace(Lower(code_content), S_httpPrefix, << >>),
                                S_httpsPrefix, << >>), SLASH))),
              loaded |-> FALSE, error |-> r.error,
              loaded_modules |-> r.loaded_modules]
  IN  try(load_program_from_url(IF w.use_nfs THEN w.nfs_mount ELSE DefaultMount,
                                loaded_modules, files, code_content, program_type))


\* MapTask(**task_data) and ReduceTask(**task_data): the fields without a
\* default must be given (pydantic's ValidationError otherwise)
MapTaskRequired == {"task_id", "input_file", "output_dir", "mapper_code"}
MapTaskDefaults == [mapper_url |-> << >>, split_start |-> 0, split_end |-> None]
ReduceTaskRequired ==
  {"task_id", "input_files", "output_file", "reducer_code", "partition_id"}
ReduceTaskDefaults == [reducer_url |-> << >>]
ValidationError == "ValidationError"
UnknownTaskType == "Unknown task type"

\* Worker.execute_map_task(task): [files, worker |-> the worker afterwards,
\* result |-> the TaskResult, load |-> what load_user_class did, calls |-> 0]
Worker_execute_map_task(w, files, task) ==
  LET ran(load, r) ==
        [files |-> r.files, result |-> r.result, load |-> load, calls |-> 0,
         emitted |-> r.emitted,
         worker |-> [w EXCEPT !.loaded_modules = load.loaded_modules,
                              !.current_tasks = DictPut(@, task.task_id, r.result)]]
      run(load) == ran(load, execute_map_task(w, files, task, load.cls))
  IN  run(load_user_class(w, w.loaded_modules, files, task.mapper_code, "Mapper"))

\* Worker.execute_reduce_task(task)
Worker_execute_reduce_task(w, files, task) ==
  LET ran(load, r) ==
        [files |-> r.files, result |-> r.result, load |-> load, calls |-> r.calls,
         emitted |-> << >>,
         worker |-> [w EXCEPT !.loaded_modules = load.loaded_modules,
                              !.current_tasks = DictPut(@, task.task_id, r.result)]]
      run(load) == ran(load, execute_reduce_task(w, files, task, load.cls))
  IN  run(load_user_class(w, w.loaded_modules, files, task.reducer_code, "Reducer"))

\* What the client of POST /task/execute gets: a TaskResponse (HTTP 200), or
\* HTTP 500 when an exception leaves the handler.
TaskResponse(task_id, status, result, error) ==
  [http |-> 200, task_id |-> task_id, status |-> status, result |-> result,
   error |-> error]
InternalServerError ==
  [http |-> 500, task_id |-> << >>, status |-> "", result |-> None, error |-> None]

\* The TaskResponse built from the TaskResult of a task that ran
ResponseOf(result) ==
  TaskResponse(result.task_id, result.status,
               IF result.status = COMPLETED THEN Some(result) ELSE None,
               result.error_message)
\* The TaskResponse of the handler's "except Exception as e" branch
ExceptResponse(task_data, e) ==
  TaskResponse(IF "task_id" \in DOMAIN task_data THEN task_data.task_id
               ELSE S_unknown,
               FAILED, None, Some(e))

\* The handler of POST /task/execute on worker w: [files, worker, response,
\* ran |-> whether a task was executed, result, load, calls]
NoRun(w, files, response) ==
  [files |-> files, worker |-> w, response |-> response, ran |-> FALSE,
   result |-> TaskResult(<< >>, "", "", << >>, None, ""),
   load |-> [cls |-> "", loaded |-> FALSE, error |-> "", loaded_modules |-> << >>],
   calls |-> 0, emitted |-> << >>]
DidRun(r) ==
  [files |-> r.files, worker |-> r.worker, response |-> ResponseOf(r.result),
   ran |-> TRUE, result |-> r.result, load |-> r.load, calls |-> r.calls,
   emitted |-> r.emitted]
\* (a variant without the handler's try/except: an exception leaves it)
execute_task_uncaught(w, files, request) ==
  IF request.task_type = MAP /\ MapTaskRequired \subseteq DOMAIN request.task_data
  THEN DidRun(Worker_execute_map_task(w, files,
                request.task_data @@ MapTaskDefaults))
  ELSE IF request.task_type = REDUCE
          /\ ReduceTaskRequired \subseteq DOMAIN request.task_data
  THEN DidRun(Worker_execute_reduce_task(w, files,
                request.task_data @@ ReduceTaskDefaults))
  ELSE NoRun(w, files, InternalServerError)
execute_task(w, files, request) ==
  IF request.task_type = MAP
  THEN IF ~(MapTaskRequired \subseteq DOMAIN request.task_data)
       THEN NoRun(w, files, ExceptResponse(request.task_data, ValidationError))
       ELSE DidRun(Worker_execute_map_task(w, files,
                     request.task_data @@ MapTaskDefaults))
  ELSE IF request.task_type = REDUCE
  THEN IF ~(ReduceTaskRequired \subseteq DOMAIN request.task_data)
       THEN NoRun(w, files, ExceptResponse(request.task_data, ValidationError))
       ELSE DidRun(Worker_execute_reduce_task(w, files,
                     request.task_data @@ ReduceTaskDefaults))
  ELSE NoRun(w, files, ExceptResponse(request.task_data, UnknownTaskType))

(***************************************************************************)
(* MapReduceJob (mapreduce/framework.py)                                   *)
(***************************************************************************)
S__map_ == << "_", "m", "a", "p", "_" >>
S__reduce_ == << "_", "r", "e", "d", "u", "c", "e", "_" >>
S_placeholder == << "p", "l", "a", "c", "e", "h", "o", "l", "d", "e", "r" >>
S_partDash == << "p", "a", "r", "t", "-" >>
S_result == << "r", "e", "s", "u", "l", "t", ".", "t", "x", "t" >>
DOT == << "." >>

\* MapReduceJob.create_map_tasks(): one MapTask per input file
create_map_tasks(job_id, input_files, output_dir) ==
  [i \in 1..Len(input_files) |->
     [task_id |-> job_id \o S__map_ \o NatToStr(i - 1),
      input_file |-> input_files[i],
      output_dir |-> output_dir,
      mapper_code |-> << >>]]

\* "for map_result in self.completed_map_tasks:
\*    intermediate_files.extend(map_result.output_files)"
RECURSIVE AllOutputFiles(_)
AllOutputFiles(results) ==
  IF results = << >> THEN << >>
  ELSE Head(results).output_files \o AllOutputFiles(Tail(results))

\* int(filename.split("_part_")[1].split(".")[0])
PartitionOfName(filename) ==
  ParseInt(Split(Split(filename, S_part)[2], DOT)[1])

\* The grouping loop of create_reduce_tasks: the dict partition id -> files
\* after file_paths, starting from partitions; raised when int() raised
RECURSIVE GroupByPartition(_, _)
GroupByPartition(partitions, file_paths) ==
  IF file_paths = << >> THEN [raised |-> FALSE, partitions |-> partitions]
  ELSE
    LET file_path == Head(file_paths)
        filename == Basename(file_path)
    IN  IF ~Contains(filename, S_part)
        THEN GroupByPartition(partitions, Tail(file_paths))
        ELSE
          LET p == PartitionOfName(filename)
          IN  IF ~p.ok THEN [raised |-> TRUE, partitions |-> partitions]
              ELSE GroupByPartition(
                     DictPut(partitions, p.val,
                             Append(IF DictHas(partitions, p.val)
                                    THEN DictGet(partitions, p.val) ELSE << >>,
                                    file_path)),
                     Tail(file_paths))

\* MapReduceJob.create_reduce_tasks(): [raised |-> a ValueError left the
\* method, tasks |-> the ReduceTasks, in the order of the dict's items]
create_reduce_tasks(job_id, output_dir, completed_map_tasks) ==
  LET \* "for partition_id, files in partitions.items()"
      task(partition_id, input_files) ==
        [task_id |-> job_id \o S__reduce_ \o IntToStr(partition_id),
         input_files |-> input_files,
         output_file |->
           PathJoin(output_dir,
                    << S_placeholder,
                       S_partDash \o Format05d(partition_id) \o S_txt >>),
         reducer_code |-> << >>,
         partition_id |-> partition_id]
      \* g: what the grouping loop gave
      tasks_of(g) ==
        IF g.raised THEN [raised |-> TRUE, tasks |-> << >>]
        ELSE [raised |-> FALSE,
              tasks |-> [i \in 1..Len(g.partitions) |->
                           task(g.partitions[i].k, g.partitions[i].v)]]
  IN  tasks_of(GroupByPartition(<< >>, AllOutputFiles(completed_map_tasks)))

\* extract_partition_id(filepath) of create_final_result
extract_partition_id(filepath) ==
  LET filename == Basename(filepath)
  IN  IF Contains(filename, S_partDash)
      THEN ParseInt(Split(Split(filename, S_partDash)[2], DOT)[1])
      ELSE [ok |-> TRUE, val |-> 0]

\* reduce_files.sort(key=extract_partition_id): a stable insertion sort
RECURSIVE InsertByPartition(_, _)
InsertByPartition(sorted, f) ==
  IF sorted = << >> THEN << f >>
  ELSE IF extract_partition_id(f).val < extract_partition_id(Head(sorted)).val
       THEN << f >> \o sorted
       ELSE << Head(sorted) >> \o InsertByPartition(Tail(sorted), f)
\* (a variant that leaves the files in the order of the recorded results)
SortByPartition_recorded(fs) == fs
RECURSIVE SortByPartition(_)
SortByPartition(fs) ==
  IF fs = << >> THEN << >>
  ELSE InsertByPartition(SortByPartition(UpTo(fs, Len(fs) - 1)), fs[Len(fs)])

\* The concatenation of the files of reduce_files that exist
RECURSIVE ConcatExisting(_, _)
ConcatExisting(files, reduce_files) ==
  IF reduce_files = << >> THEN << >>
  ELSE (IF Exists(files, Head(reduce_files)) THEN files[Head(reduce_files)]
        ELSE << >>) \o ConcatExisting(files, Tail(reduce_files))

\* MapReduceJob.create_final_result(): [raised, files, result_file]
create_final_result(files, job_id, output_dir, completed_reduce_tasks) ==
  LET result_file == PathJoin(output_dir, << S_jobs, job_id, S_result >>)
      reduce_files == AllOutputFiles(completed_reduce_tasks)
  IN  IF \E i \in 1..Len(reduce_files) : ~extract_partition_id(reduce_files[i]).ok
      THEN [raised |-> TRUE, files |-> files, result_file |-> result_file]
      ELSE [raised |-> FALSE,
            files |-> WriteFile(files, result_file,
                                ConcatExisting(files, SortByPartition(reduce_files))),
            result_file |-> result_file]

(***************************************************************************)
(* The cluster: the shared storage, the worker processes and one job       *)
(***************************************************************************)
VARIABLES
  fs,        \* the shared storage, by the path the workers use: path -> lines
  workers,   \* worker_id -> the Worker object of that process
  job,       \* the MapReduceJob of the coordinator and its bookkeeping
  last,      \* the latest POST /task/execute exchange
  emitted,   \* history: the records the mappers of the job's recorded map results emitted
  posts      \* the number of requests posted to the workers so far

vars == << fs, workers, job, last, emitted, posts >>

WorkerIds == {"w1", "w2"}
\* The hash seeds a Python process may have drawn at start-up
HashSeeds == {0, 1}

\* Worker.__init__(worker_id, ..., use_nfs, nfs_mount), in a process whose
\* str hash is seeded with seed. Of the process besides the object:
\* executing, the tasks running in threads of the event loop's default
\* executor, blocked, the blocking call the event-loop thread is inside
\* ("" between callbacks), and pc, the position of the process in
\* Worker.start ("serving" once the server runs)
NewWorker(worker_id, use_nfs, nfs_mount, seed) ==
  [worker_id |-> worker_id, use_nfs |-> use_nfs, nfs_mount |-> nfs_mount,
   seed |-> seed, current_tasks |-> << >>, loaded_modules |-> << >>,
   executing |-> << >>, blocked |-> "", pc |-> "serving"]

\* The input data of the model, by canonical path
FileA == SharedRoot \o << "/", "i", "n", "p", "u", "t", "/", "a", ".", "t", "x", "t" >>
FileB == SharedRoot \o << "/", "i", "n", "p", "u", "t", "/", "b", ".", "t", "x", "t" >>
FileC == SharedRoot \o << "/", "i", "n", "p", "u", "t", "/", "c", ".", "t", "x", "t" >>
FileMissing == SharedRoot \o << "/", "i", "n", "p", "u", "t", "/", "n", "o", "n", "e", ".", "t", "x", "t" >>
InputData ==
  (FileA :> << << "k", "=", "2" >>, << "k", "=", "1" >>, << "z", "=" >> >>)
  @@ (FileB :> << << "k", "=", "3" >>, << "j", "=", "x" >> >>)
  @@ (FileC :> << << "a", " ", "b" >>, << "A" >> >>)

\* The program references of the model
RefWordcount == S_wordcount
RefPair == << "f", "i", "l", "e", ":", "/", "/" >> \o UserProgramPath
RefNoClass == << "f", "i", "l", "e", ":", "/", "/" >> \o NoClassProgramPath
RefMissing == << "f", "i", "l", "e", ":", "/", "/", "/", "u", "/", "n", "o", "n", "e", ".", "p", "y" >>

\* The storage path of a canonical path: the same storage is reached under
\* /shared/gridmr by the coordinator and under the mount by the workers
Mounted(use_nfs, path) ==
  IF use_nfs /\ MatchAt(path, SharedRoot, 0)
  THEN DefaultMount \o From(path, Len(SharedRoot)) ELSE path
Canonical(use_nfs, path) ==
  IF use_nfs /\ MatchAt(path, DefaultMount, 0)
  THEN SharedRoot \o From(path, Len(DefaultMount)) ELSE path
\* The storage as the coordinator sees it, and back
MasterView(use_nfs, files) ==
  [p \in {Canonical(use_nfs, q) : q \in DOMAIN files} |-> files[Mounted(use_nfs, p)]]
StorageOf(use_nfs, view) ==
  [q \in {Mounted(use_nfs, p) : p \in DOMAIN view} |-> view[Canonical(use_nfs, q)]]

NoExchange ==
  [worker_id |-> "", request |-> [task_type |-> "", task_data |-> [task_id |-> << >>]],
   before |-> << >>, out |-> << >>]

\* The job as constructed by MapReduceJob.__init__, with the coordinator's
\* bookkeeping: the phase of the job, the FIFO ready-queue of the phase (task
\* indices), the attempts made of each task of the phase, the workers marked
\* lost and the reason of a failure
NewJob(job_id, input_files, mapper_url, reducer_url, use_nfs) ==
  [job_id |-> job_id, input_files |-> input_files, output_dir |-> SharedRoot,
   mapper_url |-> mapper_url, reducer_url |-> reducer_url,
   map_tasks |-> << >>, reduce_tasks |-> << >>,
   completed_map_tasks |-> << >>, completed_reduce_tasks |-> << >>,
   phase |-> "pending", result_file |-> << >>, use_nfs |-> use_nfs,
   queue |-> << >>, attempts |-> << >>, lost |-> {}, reason |-> ""]

JobPrograms ==
  {<< RefWordcount, RefWordcount >>, << RefPair, RefPair >>,
   << RefPair, RefWordcount >>}

InitOf(job_ids, seeds, inputs) ==
  \E use_nfs \in BOOLEAN, seed \in [WorkerIds -> seeds], job_id \in job_ids,
     prog \in JobPrograms, input_files \in inputs :
    /\ fs = [q \in {Mounted(use_nfs, p) : p \in DOMAIN InputData} |->
               InputData[Canonical(use_nfs, q)]]
    /\ workers = [w \in WorkerIds |->
                    NewWorker(w, use_nfs, DefaultMount, seed[w])]
    /\ job = NewJob(job_id, input_files, prog[1], prog[2], use_nfs)
    /\ last = NoExchange
    /\ emitted = << >>
    /\ posts = 0
InitWith(job_ids, seeds) == InitOf(job_ids, seeds, { << FileA, FileB >> })

\* The cluster before a job runs
Init == InitWith({ << "j" >> }, HashSeeds)

(***************************************************************************)
(* A worker serving POST /task/execute requests                            *)
(***************************************************************************)
MaxPosts == 3

\* worker w handles the request: the handler runs to its response
Post(w, request) ==
  /\ posts < MaxPosts
  /\ \E r \in { execute_task(workers[w], fs, request) } :
       /\ fs' = r.files
       /\ workers' = [workers EXCEPT ![w] = r.worker]
       /\ last' = [worker_id |-> w, request |-> request, before |-> fs,
                   out |-> r]
  /\ posts' = posts + 1
  /\ UNCHANGED << job, emitted >>

\* The map tasks a worker is sent: one per input file, the last one over a
\* file that does not exist
MapInputs == << FileA, FileB, FileC, FileMissing >>
\* << i, code >>: the map task over MapInputs[i] with mapper_code = code
MapRequests ==
  { << 1, RefWordcount >>, << 1, RefPair >>, << 2, RefPair >>,
    << 3, RefPair >>, << 4, RefWordcount >>, << 1, RefNoClass >>,
    << 2, RefMissing >> }
MapRequest(i, code) ==
  [task_type |-> MAP,
   task_data |-> [create_map_tasks(job.job_id, MapInputs, SharedRoot)[i]
                    EXCEPT !.mapper_code = code]]

\* The reduce tasks a worker is sent: for partition p the map output files
\* of two map tasks, in either order, whether a map task wrote them or not
\* << order, code >>: the reduce task over the outputs of the map tasks
\* order[1], order[2], in that order, with reducer_code = code
ReduceRequests ==
  { << << 1, 2 >>, RefPair >>, << << 2, 1 >>, RefPair >>,
    << << 1, 2 >>, RefWordcount >> }
MapOutputPath(i, p) ==
  PathJoin2(IntermediateMapDir(SharedRoot, job.job_id),
            MapFileName(create_map_tasks(job.job_id, MapInputs, SharedRoot)[i].task_id, p))
ReduceRequest(p, order, code) ==
  [task_type |-> REDUCE,
   task_data |-> [task_id |-> job.job_id \o S__reduce_ \o IntToStr(p),
                  input_files |-> [n \in 1..Len(order) |-> MapOutputPath(order[n], p)],
                  output_file |-> PathJoin(SharedRoot,
                                   << S_placeholder, PartFileName(p) >>),
                  reducer_code |-> code,
                  partition_id |-> p]]

\* Requests the handler cannot turn into a task
OtherRequests ==
  { [task_type |-> "SHUFFLE", task_data |-> [task_id |-> << "j", "_", "s", "h", "u", "f", "f", "l", "e", "_", "0" >>]],
    [task_type |-> "SHUFFLE", task_data |-> [job |-> << "j" >>]],
    [task_type |-> MAP, task_data |-> [task_id |-> << "j", "_", "m", "a", "p", "_", "0" >>]],
    [task_type |-> REDUCE, task_data |-> [output_file |-> << "/", "o" >>]] }

PostMap(w) ==
  \E m \in MapRequests : Post(w, MapRequest(m[1], m[2]))
PostReduce(w) ==
  \E p \in 0..(NumPartitions - 1), r \in ReduceRequests :
    Post(w, ReduceRequest(p, r[1], r[2]))
PostOther(w) ==
  \E request \in OtherRequests : Post(w, request)

\* One worker process, "w1", with either hash seed, serving what it is sent
Server == "w1"
InitWorker == Init /\ job.mapper_url = RefWordcount /\ workers["w2"].seed = 0
NextWorker == PostMap(Server) \/ PostReduce(Server) \/ PostOther(Server)
SpecWorker == InitWorker /\ [][NextWorker]_vars

(***************************************************************************)
(* The coordinator driving one job through its phases                      *)
(***************************************************************************)
RetryBudget == 3

\* submit: the job's map tasks are created and queued
CreateMapTasks ==
  /\ job.phase = "pending"
  /\ LET tasks == create_map_tasks(job.job_id, job.input_files, job.output_dir)
     IN  job' = [job EXCEPT !.map_tasks = tasks, !.phase = "map",
                            !.queue = [i \in 1..Len(tasks) |-> i],
                            !.attempts = [i \in 1..Len(tasks) |-> 0]]
  /\ UNCHANGED << fs, workers, last, emitted, posts >>

\* (a variant that requeues a failed task whatever its attempts)
Answered_noBudget(j, completed) ==
  LET i == Head(j.queue)
      n == j.attempts[i] + 1
  IN  IF completed
      THEN [j EXCEPT !.queue = Tail(@), !.attempts[i] = n]
      ELSE IF n > RetryBudget
      THEN [j EXCEPT !.queue = << >>, !.attempts[i] = n, !.phase = "failed"]
      ELSE [j EXCEPT !.queue = Append(Tail(@), i), !.attempts[i] = n]
\* The coordinator's bookkeeping after the answer to the task at the head of
\* the queue: a completed task leaves the queue; a failed one is requeued
\* until its budget is used up, and then the job fails
Answered(j, completed) ==
  LET i == Head(j.queue)
      n == j.attempts[i] + 1
  IN  IF completed
      THEN [j EXCEPT !.queue = Tail(@), !.attempts[i] = n]
      ELSE IF n >= RetryBudget
      THEN [j EXCEPT !.queue = << >>, !.attempts[i] = n, !.phase = "failed"]
      ELSE [j EXCEPT !.queue = Append(Tail(@), i), !.attempts[i] = n]

\* The map task at the head of the queue is posted to worker w, with the
\* job's mapper reference, and the answer is recorded
DispatchMap(w) ==
  /\ job.phase = "map" /\ job.queue # << >>
  /\ \E request \in { [task_type |-> MAP,
                         task_data |-> [job.map_tasks[Head(job.queue)]
                                          EXCEPT !.mapper_code = job.mapper_url]] } :
     \E r \in { execute_task(workers[w], fs, request) } :
       /\ fs' = r.files
       /\ workers' = [workers EXCEPT ![w] = r.worker]
       /\ last' = [worker_id |-> w, request |-> request, before |-> fs,
                   out |-> r]
       /\ emitted' = IF r.response.status = COMPLETED
                     THEN emitted \o r.emitted ELSE emitted
       /\ job' = IF r.response.status = COMPLETED
                 THEN [Answered(job, TRUE) EXCEPT
                         !.completed_map_tasks = Append(@, r.response.result[1])]
                 ELSE Answered(job, FALSE)
  /\ UNCHANGED posts

\* (a variant that does not wait for the map queue to drain)
CreateReduceTasks_early ==
  /\ job.phase = "map"
  /\ \E r \in { create_reduce_tasks(job.job_id, job.output_dir,
                                      job.completed_map_tasks) } :
       job' = IF r.raised THEN [job EXCEPT !.phase = "failed"]
              ELSE [job EXCEPT !.reduce_tasks = r.tasks, !.phase = "reduce",
                               !.queue = [i \in 1..Len(r.tasks) |-> i],
                               !.attempts = [i \in 1..Len(r.tasks) |-> 0]]
  /\ UNCHANGED << fs, workers, last, emitted, posts >>
\* All map tasks are completed: the reduce tasks are created and queued
CreateReduceTasks ==
  /\ job.phase = "map" /\ job.queue = << >>
  /\ \E r \in { create_reduce_tasks(job.job_id, job.output_dir,
                                      job.completed_map_tasks) } :
       job' = IF r.raised THEN [job EXCEPT !.phase = "failed"]
              ELSE [job EXCEPT !.reduce_tasks = r.tasks, !.phase = "reduce",
                               !.queue = [i \in 1..Len(r.tasks) |-> i],
                               !.attempts = [i \in 1..Len(r.tasks) |-> 0]]
  /\ UNCHANGED << fs, workers, last, emitted, posts >>

\* The reduce task at the head of the queue is posted to worker w
DispatchReduce(w) ==
  /\ job.phase = "reduce" /\ job.queue # << >>
  /\ \E request \in { [task_type |-> REDUCE,
                         task_data |-> [job.reduce_tasks[Head(job.queue)]
                                          EXCEPT !.reducer_code = job.reducer_url]] } :
     \E r \in { execute_task(workers[w], fs, request) } :
       /\ fs' = r.files
       /\ workers' = [workers EXCEPT ![w] = r.worker]
       /\ last' = [worker_id |-> w, request |-> request, before |-> fs,
                   out |-> r]
       /\ job' = IF r.response.status = COMPLETED
                 THEN [Answered(job, TRUE) EXCEPT
                         !.completed_reduce_tasks = Append(@, r.response.result[1])]
                 ELSE Answered(job, FALSE)
  /\ UNCHANGED << emitted, posts >>

\* All reduce tasks are completed: the final result is assembled
CreateFinalResult ==
  /\ job.phase = "reduce" /\ job.queue = << >>
  /\ \E r \in { create_final_result(MasterView(job.use_nfs, fs), job.job_id,
                                      job.output_dir, job.completed_reduce_tasks) } :
       /\ fs' = StorageOf(job.use_nfs, r.files)
       /\ job' = IF r.raised THEN [job EXCEPT !.phase = "failed"]
                 ELSE [job EXCEPT !.phase = "completed",
                                  !.result_file = r.result_file]
  /\ UNCHANGED << workers, last, emitted, posts >>

Next ==
  \/ CreateMapTasks
  \/ \E w \in WorkerIds : DispatchMap(w)
  \/ CreateReduceTasks
  \/ \E w \in WorkerIds : DispatchReduce(w)
  \/ CreateFinalResult
Spec == Init /\ [][Next]_vars

(***************************************************************************)
(* Properties of one exchange with a worker                                *)
(***************************************************************************)
Posted == last.worker_id # ""
LastWorker == workers[last.worker_id]
LastTask == last.request.task_data
LastRanMap == Posted /\ last.out.ran /\ last.request.task_type = MAP
LastRanReduce == Posted /\ last.out.ran /\ last.request.task_type = REDUCE
\* The key of a line "<key>TAB<rest>"
LineKey(line) == Split1(line, << TAB >>)[1]
\* The files the latest exchange created or changed
Touched == {q \in DOMAIN fs : q \notin DOMAIN last.before \/ fs[q] # last.before[q]}

\* C3: every file a map task writes is named map_<task_id>_part_<p>.txt with
\* 0 <= p < R, each record in it has a key whose hash (in the worker's
\* process) mod R is p, and no key is in two files of the task.
C3_MapFilesPartitioned ==
  LastRanMap =>
    LET out == last.out.result.output_files
        local == [n \in 1..Len(out) |-> ToLocal(LastWorker, out[n])]
    IN  /\ Touched \subseteq {local[n] : n \in 1..Len(out)}
        /\ \A n \in 1..Len(out) :
             /\ local[n] \in DOMAIN fs
             /\ \E p \in 0..(NumPartitions - 1) :
                  /\ Basename(out[n]) =
                       << "m", "a", "p", "_" >> \o LastTask.task_id \o << "_", "p", "a", "r", "t", "_" >>
                         \o IntToStr(p) \o << ".", "t", "x", "t" >>
                  /\ \A l \in 1..Len(fs[local[n]]) :
                       PyHash(LastWorker.seed, LineKey(fs[local[n]][l]))
                         % NumPartitions = p
        /\ \A n, m \in 1..Len(out) :
             (\E l \in 1..Len(fs[local[n]]), k \in 1..Len(fs[local[m]]) :
                LineKey(fs[local[n]][l]) = LineKey(fs[local[m]][k])) => n = m
        /\ \A i \in 1..Len(last.out.emitted) :
             \E n \in 1..Len(out) : \E l \in 1..Len(fs[local[n]]) :
               LineKey(fs[local[n]][l]) = last.out.emitted[i].key

\* C3 witness: a map task wrote two partition files, one of them with two
\* records of the same key
C3_Witness ==
  /\ LastRanMap
  /\ last.out.result.status = COMPLETED
  /\ Len(last.out.result.output_files) >= 2
  /\ \E n \in 1..Len(last.out.result.output_files) :
       LET f == fs[ToLocal(LastWorker, last.out.result.output_files[n])]
       IN  \E l, k \in 1..Len(f) : l # k /\ LineKey(f[l]) = LineKey(f[k])

\* The shuffled file and the reduce output file of partition p of job job_id,
\* by storage path
ShuffledFileOf(job_id, p) ==
  Mounted(job.use_nfs, SharedRoot \o << "/", "j", "o", "b", "s", "/" >> \o job_id
    \o << "/", "i", "n", "t", "e", "r", "m", "e", "d", "i", "a", "t", "e", "/", "s", "h", "u", "f", "f", "l", "e", "d", "/", "s", "h", "u", "f", "f", "l", "e", "d", "_", "p", "a", "r", "t", "_" >> \o IntToStr(p) \o << ".", "t", "x", "t" >>)
ReduceFileOf(job_id, p) ==
  Mounted(job.use_nfs, SharedRoot \o << "/", "j", "o", "b", "s", "/" >> \o job_id
    \o << "/", "i", "n", "t", "e", "r", "m", "e", "d", "i", "a", "t", "e", "/", "r", "e", "d", "u", "c", "e", "/", "p", "a", "r", "t", "-" >> \o Format05d(p) \o << ".", "t", "x", "t" >>)
IsShuffledFile(path) == Contains(path, << "/", "i", "n", "t", "e", "r", "m", "e", "d", "i", "a", "t", "e", "/", "s", "h", "u", "f", "f", "l", "e", "d", "/", "s", "h", "u", "f", "f", "l", "e", "d", "_", "p", "a", "r", "t", "_" >>)

\* The input files of the latest reduce task, by storage path, and the lines
\* of those that existed when the task arrived, concatenated in list order
LastInputs ==
  [n \in 1..Len(LastTask.input_files) |->
     Mounted(job.use_nfs, LastTask.input_files[n])]
RECURSIVE LinesOfPresent(_, _)
LinesOfPresent(files, paths) ==
  IF paths = << >> THEN << >>
  ELSE (IF Head(paths) \in DOMAIN files THEN files[Head(paths)] ELSE << >>)
       \o LinesOfPresent(files, Tail(paths))
\* A line is a record when, stripped of surrounding whitespace, it still
\* has a tab: its key is the text before the first tab, its value the rest
IsRecord(line) == Contains(Strip(line), << TAB >>)
RecordKey(line) == Split1(Strip(line), << TAB >>)[1]
RecordValue(line) == Split1(Strip(line), << TAB >>)[2]
\* The values of the records of key k among lines, in order
RECURSIVE ValuesOfKey(_, _)
ValuesOfKey(lines, k) ==
  IF lines = << >> THEN << >>
  ELSE (IF IsRecord(Head(lines)) /\ RecordKey(Head(lines)) = k
        THEN << RecordValue(Head(lines)) >> ELSE << >>)
       \o ValuesOfKey(Tail(lines), k)

\* C5: in every shuffled file the keys of the lines are strictly increasing
\* (so each key is on exactly one line).
C5_ShuffledKeysIncreasing ==
  \A q \in DOMAIN fs :
    IsShuffledFile(q) =>
      \A l \in 1..(Len(fs[q]) - 1) : StrLess(LineKey(fs[q][l]), LineKey(fs[q][l + 1]))

\* C5 witness: a reduce task left a shuffled file of at least two lines, one
\* of them holding several values
C5_Witness ==
  /\ LastRanReduce
  /\ LET f == fs[ShuffledFileOf(job.job_id, LastTask.partition_id)]
     IN  /\ Len(f) >= 2
         /\ \E l \in 1..Len(f) : Contains(f[l], << "," >>)

\* C6: the values on the line of a key in the shuffled file are the values
\* of the key's records in the concatenation of the input files, read in the
\* order of the task's input_files, in that order.
C6_ValuesInInputOrder ==
  LastRanReduce =>
    LET f == fs[ShuffledFileOf(job.job_id, LastTask.partition_id)]
        concat == LinesOfPresent(last.before, LastInputs)
    IN  \A l \in 1..Len(f) :
          Split1(f[l], << TAB >>)[2] =
            Join(<< "," >>, ValuesOfKey(concat, LineKey(f[l])))

\* C6 witness: a key with two values from the first input file, not in
\* ascending order, and a third from the second input file
C6_Witness ==
  /\ LastRanReduce
  /\ \A n \in 1..Len(LastInputs) : LastInputs[n] \in DOMAIN last.before
  /\ LET f == fs[ShuffledFileOf(job.job_id, LastTask.partition_id)]
     IN  \E l \in 1..Len(f) :
           \E v \in {Split(Split1(f[l], << TAB >>)[2], << "," >>)} :
             /\ Len(v) = 3
             /\ StrLess(v[2], v[1])
             /\ Len(ValuesOfKey(last.before[LastInputs[1]], LineKey(f[l]))) = 2

\* C9: a reduce task reads a missing input file as an empty one: the keys of
\* the shuffled file are those of the records of the files that exist, the
\* task fails only when the reducer was called, and with no record at all
\* the shuffled file and the output file are empty, the reducer is not
\* called and the result is COMPLETED.
C9_MissingInputIsEmpty ==
  LastRanReduce =>
    LET p == LastTask.partition_id
        shuffled == ShuffledFileOf(job.job_id, p)
        output == ReduceFileOf(job.job_id, p)
        concat == LinesOfPresent(last.before, LastInputs)
        keys == {RecordKey(concat[l]) : l \in {n \in 1..Len(concat) : IsRecord(concat[n])}}
    IN  /\ shuffled \in DOMAIN fs /\ output \in DOMAIN fs
        /\ {LineKey(fs[shuffled][l]) : l \in 1..Len(fs[shuffled])} = keys
        /\ last.out.result.status = FAILED => last.out.calls > 0
        /\ keys = {} =>
             /\ fs[shuffled] = << >> /\ fs[output] = << >>
             /\ last.out.calls = 0
             /\ last.out.result.status = COMPLETED
             /\ last.out.response.status = COMPLETED

\* C9 witness: a reduce task completed though its first input file does not
\* exist, after the worker completed a reduce task of an empty partition
C9_Witness ==
  /\ LastRanReduce
  /\ LastInputs[1] \notin DOMAIN last.before
  /\ LastInputs[2] \in DOMAIN last.before
  /\ fs[ShuffledFileOf(job.job_id, LastTask.partition_id)] # << >>
  /\ last.out.result.status = COMPLETED
  /\ \E t \in 1..Len(LastWorker.current_tasks) :
       LET r == LastWorker.current_tasks[t].v
       IN  /\ r.task_type = REDUCE /\ r.status = COMPLETED
           /\ fs[Mounted(job.use_nfs, r.output_files[1])] = << >>

\* What goes wrong in the latest task: its input file does not exist, the
\* user's map function raises on a line of it (PairMapper on a line without
\* "="), the reduce function raises on a value (the word-count reducer on a
\* value that is no integer)
LastInputMissing ==
  LastRanMap /\ Mounted(job.use_nfs, LastTask.input_file) \notin DOMAIN last.before
LastMapRaises ==
  /\ LastRanMap /\ ~LastInputMissing
  /\ LastTask.mapper_code = RefPair
  /\ \E l \in 1..Len(last.before[Mounted(job.use_nfs, LastTask.input_file)]) :
       ~Contains(last.before[Mounted(job.use_nfs, LastTask.input_file)][l], << "=" >>)
LastReduceRaises ==
  /\ LastRanReduce
  /\ LastTask.reducer_code = RefWordcount
  /\ LET f == fs[ShuffledFileOf(job.job_id, LastTask.partition_id)]
     IN  \E l \in 1..Len(f) :
           \E v \in {Split(Split1(f[l], << TAB >>)[2], << "," >>)} :
             \E n \in 1..Len(v) : ~IsDecimal(v[n])

\* C7: POST /task/execute always answers with a TaskResponse; a task with a
\* missing input file or whose map or reduce function raises has a FAILED
\* TaskResult with its error_message set and is answered FAILED, error set,
\* no result; so is a request of an unknown task_type.
C7_ErrorsBecomeFailedResponses ==
  Posted =>
    /\ last.out.response.http = 200
    /\ last.out.response.status \in {COMPLETED, FAILED}
    /\ last.out.response.status = FAILED =>
         last.out.response.error # None /\ last.out.response.result = None
    /\ last.request.task_type \notin {MAP, REDUCE} =>
         last.out.response.status = FAILED
    /\ (LastInputMissing \/ LastMapRaises \/ LastReduceRaises) =>
         /\ last.out.result.status = FAILED
         /\ last.out.result.error_message # None
         /\ last.out.response.status = FAILED
         /\ last.out.response.error = last.out.result.error_message
         /\ DictGet(LastWorker.current_tasks, LastTask.task_id) = last.out.result

\* C7 witness: the worker answered a request of an unknown type FAILED after
\* a map task over a missing file and a task whose user code raised
C7_Witness ==
  /\ Posted
  /\ last.request.task_type \notin {MAP, REDUCE}
  /\ last.out.response.status = FAILED
  /\ \E t \in 1..Len(LastWorker.current_tasks) :
       LastWorker.current_tasks[t].v.error_message = Some(FileNotFoundError)
  /\ \E t \in 1..Len(LastWorker.current_tasks) :
       LastWorker.current_tasks[t].v.error_message = Some(UserCodeError)

\* C8: a task whose mapper or reducer reference cannot be resolved, or names
\* a file without a class of the interface, is answered FAILED with the load
\* error.
C8_LoadFailureFails ==
  (LastRanMap /\ LastTask.mapper_code \in {RefMissing, RefNoClass}) =>
    /\ last.out.response.status = FAILED
    /\ last.out.response.error # None

\* C8: the case reached: such a task was executed
C8_Witness ==
  /\ LastRanMap
  /\ LastTask.mapper_code \in {RefMissing, RefNoClass}
  /\ ~last.out.load.loaded

(***************************************************************************)
(* Properties of a job                                                     *)
(***************************************************************************)
\* The words of the job's input files (the word-count mapper's words of each
\* line, in lower case), in reading order
RECURSIVE WordsOfLines(_)
WordsOfLines(lines) ==
  IF lines = << >> THEN << >>
  ELSE FindWords(Lower(Head(lines))) \o WordsOfLines(Tail(lines))
RECURSIVE WordsOfFiles(_)
WordsOfFiles(paths) ==
  IF paths = << >> THEN << >>
  ELSE WordsOfLines(InputData[Head(paths)]) \o WordsOfFiles(Tail(paths))
InputWords == WordsOfFiles(job.input_files)
Frequency(word) ==
  Cardinality({i \in 1..Len(InputWords) : InputWords[i] = word})
IsWordCountJob == job.mapper_url = RefWordcount /\ job.reducer_url = RefWordcount
\* The lines of the job's result.txt
ResultLines == fs[Mounted(job.use_nfs, job.result_file)]
\* The workers that answered the job's recorded map results
MapWorkers ==
  {job.completed_map_tasks[i].worker_id : i \in 1..Len(job.completed_map_tasks)}

\* C1: the result.txt of a completed word-count job has exactly one line per
\* distinct word of the input files, and the line of a word is the word, a
\* tab and the word's frequency across all input files, whichever workers
\* executed the map tasks.
C1_WordCountResult ==
  (job.phase = "completed" /\ IsWordCountJob) =>
    /\ \A i \in 1..Len(InputWords) :
         Cardinality({l \in 1..Len(ResultLines) :
                        LineKey(ResultLines[l]) = InputWords[i]}) = 1
    /\ \A l \in 1..Len(ResultLines) :
         /\ Frequency(LineKey(ResultLines[l])) > 0
         /\ ResultLines[l] =
              LineKey(ResultLines[l]) \o << TAB >>
                \o NatToStr(Frequency(LineKey(ResultLines[l])))

\* C1: the case reached: a word-count job whose map tasks two worker
\* processes executed is completed
C1_Witness ==
  /\ job.phase = "completed" /\ IsWordCountJob
  /\ Cardinality(MapWorkers) = 2
  /\ \E i \in 1..Len(InputWords) : Frequency(InputWords[i]) >= 2

\* The keys of the records in the file at a canonical path
KeysOfFile(path) ==
  {LineKey(fs[Mounted(job.use_nfs, path)][l]) :
     l \in 1..Len(fs[Mounted(job.use_nfs, path)])}
\* The partition id a worker wrote a map output file under: the number
\* between the last "_part_" of the name and ".txt"
WrittenPartition(path) ==
  ParseInt(DropLast(From(path, RFind(path, << "_", "p", "a", "r", "t", "_" >>) + 6), 4)).val
Occurrences(seq, x) == Cardinality({i \in 1..Len(seq) : seq[i] = x})

(***************************************************************************)
(* The worker processes of a cluster executing map tasks                   *)
(***************************************************************************)
InitMappers == Init /\ job.mapper_url = RefWordcount
NextMappers == \E w \in WorkerIds : PostMap(w)
SpecMappers == InitMappers /\ [][NextMappers]_vars

\* The results of the map tasks worker w completed
MapResultsOf(w) ==
  {workers[w].current_tasks[t].v : t \in
     {n \in 1..Len(workers[w].current_tasks) :
        /\ workers[w].current_tasks[n].v.task_type = MAP
        /\ workers[w].current_tasks[n].v.status = COMPLETED}}

\* C2: when two map tasks of the job, completed by any worker processes,
\* both wrote records of a key, the two files holding them have the same
\* partition id.
C2_SamePartitionEverywhere ==
  \A w, v \in WorkerIds :
    \A r \in MapResultsOf(w), q \in MapResultsOf(v) :
      r.task_id # q.task_id =>
        \A n \in 1..Len(r.output_files), m \in 1..Len(q.output_files) :
          (KeysOfFile(r.output_files[n]) \cap KeysOfFile(q.output_files[m]) # {})
          => WrittenPartition(r.output_files[n]) = WrittenPartition(q.output_files[m])

\* C2: the case reached: two worker processes completed different map tasks
\* whose outputs share a key
C2_Witness ==
  \E r \in MapResultsOf("w1"), q \in MapResultsOf("w2") :
    /\ r.task_id # q.task_id
    /\ \E n \in 1..Len(r.output_files), m \in 1..Len(q.output_files) :
         KeysOfFile(r.output_files[n]) \cap KeysOfFile(q.output_files[m]) # {}

(***************************************************************************)
(* Properties of one exchange with a worker: the records                   *)
(***************************************************************************)
\* The records of lines "<key>TAB<value>" as a map task writes them
RECURSIVE RecordsOfLines(_)
RecordsOfLines(lines) ==
  IF lines = << >> THEN << >>
  ELSE << KeyValue(Split1(Head(lines), << TAB >>)[1],
                   Split1(Head(lines), << TAB >>)[2]) >>
       \o RecordsOfLines(Tail(lines))
\* The records (key, value) listed in shuffled lines "<key>TAB<v1>,<v2>,..."
RECURSIVE RecordsOfShuffled(_)
RecordsOfShuffled(lines) ==
  IF lines = << >> THEN << >>
  ELSE [i \in 1..Len(Split(Split1(Head(lines), << TAB >>)[2], << "," >>)) |->
          KeyValue(LineKey(Head(lines)),
                   Split(Split1(Head(lines), << TAB >>)[2], << "," >>)[i])]
       \o RecordsOfShuffled(Tail(lines))
SameRecords(a, b) ==
  /\ \A i \in 1..Len(a) : Occurrences(b, a[i]) = Occurrences(a, a[i])
  /\ \A i \in 1..Len(b) : Occurrences(a, b[i]) = Occurrences(b, b[i])
\* The lines of the output files of the latest map task
LastMapOutput ==
  LinesOfPresent(fs, [n \in 1..Len(last.out.result.output_files) |->
                       Mounted(job.use_nfs, last.out.result.output_files[n])])

\* C4: the records in the output files of a map task are, as a multiset,
\* the records its mapper emitted, and the records listed in the shuffled
\* file of a reduce task are, as a multiset, the records of its input files:
\* shuffle-and-sort loses, duplicates and alters no record.
C4_ShufflePreservesRecords ==
  /\ LastRanMap => SameRecords(RecordsOfLines(LastMapOutput), last.out.emitted)
  /\ LastRanReduce =>
       SameRecords(
         RecordsOfShuffled(fs[ShuffledFileOf(job.job_id, LastTask.partition_id)]),
         RecordsOfLines(LinesOfPresent(last.before, LastInputs)))

\* C4: the case reached: a reduce task over map output files that hold
\* several records, one of them with an empty value
C4_Witness ==
  /\ LastRanReduce
  /\ \E r \in { RecordsOfLines(LinesOfPresent(last.before, LastInputs)) } :
       /\ \E i \in 1..Len(r) : r[i].value = << >>
       /\ Len(r) >= 2

(***************************************************************************)
(* create_reduce_tasks over any recorded map results                       *)
(***************************************************************************)
MaxResults == 3
\* Job ids: a plain one, and two that contain "_part_"
JobIds == { << "j" >>, << "j", "_", "p", "a", "r", "t", "_", "3", ".", "x" >>, << "a", "_", "p", "a", "r", "t", "_", "b" >> }
\* The partitions whose files a recorded map result lists, in order
ResultPartitions == { << 0 >>, << 1 >>, << 0, 1 >>, << 2, 0 >> }

\* The TaskResult of map task i of the job as execute_map_task returns it
\* when the task wrote the files of the partitions parts
MapResult(i, parts) ==
  TaskResult(create_map_tasks(job.job_id, job.input_files, job.output_dir)[i].task_id,
             MAP, COMPLETED,
             [n \in 1..Len(parts) |->
                PathJoin2(IntermediateMapDir(job.output_dir, job.job_id),
                          MapFileName(create_map_tasks(job.job_id, job.input_files,
                                                       job.output_dir)[i].task_id,
                                      parts[n]))],
             None, "w1")

\* A result of map task i is appended to the job's completed_map_tasks
\* (again, for a task that was retried)
RecordMapResult(i, parts) ==
  /\ job.phase \in {"pending", "map"}
  /\ Len(job.completed_map_tasks) < MaxResults
  /\ job' = [job EXCEPT !.phase = "map",
                        !.completed_map_tasks = Append(@, MapResult(i, parts))]
  /\ UNCHANGED << fs, workers, last, emitted, posts >>

\* job.create_reduce_tasks() is called: "self.reduce_tasks = tasks", or the
\* ValueError of int() leaves the method (phase "failed")
CallCreateReduceTasks ==
  /\ job.phase = "map"
  /\ \E r \in { create_reduce_tasks(job.job_id, job.output_dir,
                                      job.completed_map_tasks) } :
       job' = IF r.raised THEN [job EXCEPT !.phase = "failed"]
              ELSE [job EXCEPT !.reduce_tasks = r.tasks, !.phase = "reduce"]
  /\ UNCHANGED << fs, workers, last, emitted, posts >>

InitReduceTasks ==
  InitWith(JobIds, {0}) /\ ~job.use_nfs /\ job.mapper_url = RefWordcount
NextReduceTasks ==
  \/ \E i \in 1..2, parts \in ResultPartitions : RecordMapResult(i, parts)
  \/ CallCreateReduceTasks
SpecReduceTasks == InitReduceTasks /\ [][NextReduceTasks]_vars

\* The files the recorded map results list
RecordedFiles ==
  {AllOutputFiles(job.completed_map_tasks)[n] :
     n \in 1..Len(AllOutputFiles(job.completed_map_tasks))}

\* C10: after create_reduce_tasks there is exactly one reduce task for each
\* partition id under which a recorded map result lists a file and none for
\* another id, and each such file is exactly once in the input_files of the
\* task of the partition id it was written under, and in no other task.
C10_OneReduceTaskPerPartition ==
  job.phase \in {"reduce", "failed"} =>
    /\ job.phase = "reduce"
    /\ \A t \in 1..Len(job.reduce_tasks) :
         \E f \in RecordedFiles :
           WrittenPartition(f) = job.reduce_tasks[t].partition_id
    /\ \A f \in RecordedFiles :
         /\ Cardinality({t \in 1..Len(job.reduce_tasks) :
              job.reduce_tasks[t].partition_id = WrittenPartition(f)}) = 1
         /\ \A t \in 1..Len(job.reduce_tasks) :
              Occurrences(job.reduce_tasks[t].input_files, f)
                = IF job.reduce_tasks[t].partition_id = WrittenPartition(f)
                  THEN 1 ELSE 0

\* C10: the case reached: reduce tasks were created from recorded results
\* that hold the result of one map task twice
C10_Witness ==
  /\ job.phase = "reduce"
  /\ Len(job.reduce_tasks) >= 2
  /\ \E i, j \in 1..Len(job.completed_map_tasks) :
       i # j /\ job.completed_map_tasks[i] = job.completed_map_tasks[j]

(***************************************************************************)
(* The coordinator's scheduler with worker losses and cancellation         *)
(***************************************************************************)
\* The status of the job that a status poll reports
JobStatusOf(j) ==
  IF j.phase = "pending" THEN "pending"
  ELSE IF j.phase \in {"map", "reduce"} THEN "running"
  ELSE j.phase
\* Tasks are dispatched to the workers that are not lost
AssignMap(w) == w \notin job.lost /\ DispatchMap(w)
AssignReduce(w) == w \notin job.lost /\ DispatchReduce(w)
\* The POST to worker w fails in transport: the task at the head of the
\* queue is requeued, its budget is not consumed, and w is marked lost
LoseWorker(w) ==
  /\ job.phase \in {"map", "reduce"} /\ job.queue # << >>
  /\ w \notin job.lost
  /\ job' = [job EXCEPT !.queue = Append(Tail(@), Head(@)),
                        !.lost = @ \cup {w}]
  /\ UNCHANGED << fs, workers, last, emitted, posts >>
\* A lost worker registers again
Register(w) ==
  /\ w \in job.lost
  /\ job' = [job EXCEPT !.lost = @ \ {w}]
  /\ UNCHANGED << fs, workers, last, emitted, posts >>
\* (a variant that cancels a job in any state)
Cancel_any ==
  /\ job' = [job EXCEPT !.phase = "failed", !.queue = << >>,
                        !.reason = "cancelled"]
  /\ UNCHANGED << fs, workers, last, emitted, posts >>
\* cancel(job_id): a running job is marked failed with reason "cancelled"
\* and nothing more is dispatched
Cancel ==
  /\ job.phase \in {"map", "reduce"}
  /\ job' = [job EXCEPT !.phase = "failed", !.queue = << >>,
                        !.reason = "cancelled"]
  /\ UNCHANGED << fs, workers, last, emitted, posts >>

\* The jobs of the scheduler's model: one whose inputs exist and one with a
\* missing input file
SchedulerInputs == { << FileA, FileB >>, << FileA, FileMissing >> }
InitScheduler == InitOf({ << "j" >> }, {0}, SchedulerInputs) /\ ~job.use_nfs
NextScheduler ==
  \/ CreateMapTasks
  \/ \E w \in WorkerIds : AssignMap(w)
  \/ CreateReduceTasks
  \/ \E w \in WorkerIds : AssignReduce(w)
  \/ CreateFinalResult
  \/ \E w \in WorkerIds : LoseWorker(w)
  \/ \E w \in WorkerIds : Register(w)
  \/ Cancel
SpecScheduler == InitScheduler /\ [][NextScheduler]_vars

\* Every map task of the job has a completed result recorded
AllMapTasksCompleted ==
  /\ job.map_tasks # << >>
  /\ \A i \in 1..Len(job.map_tasks) :
       \E n \in 1..Len(job.completed_map_tasks) :
         /\ job.completed_map_tasks[n].task_id = job.map_tasks[i].task_id
         /\ job.completed_map_tasks[n].status = COMPLETED

\* C11: whenever the job has reduce tasks, or a reduce task has been posted
\* to a worker, every map task of the job has a completed result.
C11_MapsBeforeReduces ==
  (job.reduce_tasks # << >> \/ (Posted /\ last.request.task_type = REDUCE))
  => AllMapTasksCompleted

\* C11: the case reached: a reduce task was posted in a job whose first map
\* task was requeued and completed after the second
C11_Witness ==
  /\ Posted /\ last.request.task_type = REDUCE
  /\ Len(job.completed_map_tasks) = 2
  /\ job.completed_map_tasks[1].task_id = job.map_tasks[2].task_id

StatusRank(status) ==
  IF status = "pending" THEN 0 ELSE IF status = "running" THEN 1 ELSE 2

\* C20: in every step the status of the job stays or moves forward along
\* pending -> running -> completed or failed, without skipping running, and
\* a completed or failed job keeps its status.
C20_StatusMonotone ==
  [][/\ StatusRank(JobStatusOf(job')) >= StatusRank(JobStatusOf(job))
     /\ StatusRank(JobStatusOf(job')) <= StatusRank(JobStatusOf(job)) + 1
     /\ JobStatusOf(job) \in {"completed", "failed"}
          => JobStatusOf(job') = JobStatusOf(job)]_vars

\* C20: the case reached: a job cancelled after results were recorded and a
\* worker was lost
C20_Witness ==
  /\ job.phase = "failed" /\ job.reason = "cancelled"
  /\ job.completed_map_tasks # << >>
  /\ job.lost # {}

(***************************************************************************)
(* create_final_result over any recorded reduce results                    *)
(***************************************************************************)
\* Job ids: a plain one, and one that contains "part-"
FinalJobIds == { << "j" >>, << "p", "a", "r", "t", "-", "7", ".", "x" >> }
\* The lines reduce task p wrote to its output file
ReduceOutput(p) ==
  [n \in 1..(1 + (p % 2)) |->
     KVLine(KeyValue(<< "p" >> \o IntToStr(p), IntToStr(n)))]
\* The output file of reduce task p, as execute_reduce_task names it
ReduceOutputPath(p) ==
  PathJoin(job.output_dir, << S_jobs, job.job_id, S_intermediate, S_reduce,
                              PartFileName(p) >>)
\* The TaskResult of reduce task p of the job as execute_reduce_task returns it
ReduceResult(p) ==
  TaskResult(job.job_id \o S__reduce_ \o IntToStr(p), REDUCE, COMPLETED,
             << ReduceOutputPath(p) >>, None, "w1")

\* Reduce task p wrote its output file and its result is appended to the
\* job's completed_reduce_tasks (again, for a task that was retried)
RecordReduceResult(p) ==
  /\ job.phase \in {"pending", "reduce"}
  /\ Len(job.completed_reduce_tasks) < MaxResults
  /\ fs' = WriteFile(fs, ReduceOutputPath(p), ReduceOutput(p))
  /\ job' = [job EXCEPT !.phase = "reduce",
                        !.completed_reduce_tasks = Append(@, ReduceResult(p))]
  /\ UNCHANGED << workers, last, emitted, posts >>

\* job.create_final_result() is called
CallCreateFinalResult ==
  /\ job.phase = "reduce"
  /\ \E r \in { create_final_result(fs, job.job_id, job.output_dir,
                                      job.completed_reduce_tasks) } :
       /\ fs' = r.files
       /\ job' = IF r.raised THEN [job EXCEPT !.phase = "failed"]
                 ELSE [job EXCEPT !.phase = "completed",
                                  !.result_file = r.result_file]
  /\ UNCHANGED << workers, last, emitted, posts >>

InitFinalResult ==
  InitWith(FinalJobIds, {0}) /\ ~job.use_nfs /\ job.mapper_url = RefWordcount
NextFinalResult ==
  \/ \E p \in 0..(NumPartitions - 1) : RecordReduceResult(p)
  \/ CallCreateFinalResult
SpecFinalResult == InitFinalResult /\ [][NextFinalResult]_vars

\* The partition ids of the recorded reduce results, in recorded order
RecordedPartitions ==
  [n \in 1..Len(job.completed_reduce_tasks) |->
     CHOOSE p \in 0..(NumPartitions - 1) :
       job.completed_reduce_tasks[n].task_id = ReduceResult(p).task_id]
\* The path of the final result of the job
ResultPath ==
  job.output_dir \o << "/", "j", "o", "b", "s", "/" >> \o job.job_id \o << "/", "r", "e", "s", "u", "l", "t", ".", "t", "x", "t" >>
\* The output of partition p once for every recorded result of p, for the
\* partitions from p on in ascending order
RECURSIVE ConcatRecordedFrom(_)
ConcatRecordedFrom(p) ==
  IF p >= NumPartitions THEN << >>
  ELSE LET n == Occurrences(RecordedPartitions, p)
           Repeat[k \in 0..n] ==
             IF k = 0 THEN << >> ELSE Repeat[k - 1] \o ReduceOutput(p)
       IN  Repeat[n] \o ConcatRecordedFrom(p + 1)
\* The output of every partition that has a recorded result, once, for the
\* partitions from p on in ascending order
RECURSIVE ConcatOnceFrom(_)
ConcatOnceFrom(p) ==
  IF p >= NumPartitions THEN << >>
  ELSE (IF Occurrences(RecordedPartitions, p) > 0 THEN ReduceOutput(p)
        ELSE << >>) \o ConcatOnceFrom(p + 1)

\* C12: the final result of a completed job is the file
\* <output_dir>/jobs/<job_id>/result.txt, and it holds the recorded reduce
\* output files in ascending order of partition id, whatever the order in
\* which the results were recorded.
C12_ResultInPartitionOrder ==
  job.phase = "completed" =>
    /\ job.result_file = ResultPath
    /\ Exists(fs, ResultPath)
    /\ fs[ResultPath] = ConcatRecordedFrom(0)

\* C12: the case reached: a completed job whose reduce results were recorded
\* in descending order of partition id
C12_Witness ==
  /\ job.phase = "completed"
  /\ Len(RecordedPartitions) >= 2
  /\ RecordedPartitions[1] > RecordedPartitions[2]

\* C13: the final result of a completed job holds the output of each reduce
\* partition exactly once, also when more than one result was recorded for
\* a reduce task.
C13_EachPartitionOnce ==
  job.phase = "completed" => fs[ResultPath] = ConcatOnceFrom(0)

\* C13: the case reached: a completed job with two recorded results of one
\* reduce task
C13_Witness ==
  /\ job.phase = "completed"
  /\ \E p \in 0..(NumPartitions - 1) : Occurrences(RecordedPartitions, p) >= 2

(***************************************************************************)
(* A worker process: its event loop and the threads of its executor        *)
(***************************************************************************)
MaxRequests == 2

\* The event-loop thread of worker w is between callbacks
LoopFree(w) == workers[w].blocked = ""
\* (a variant that runs the task in the event-loop thread)
run_in_loop(w, e) ==
  [w EXCEPT !.executing = Append(@, e), !.blocked = "task"]
\* loop.run_in_executor(None, self.task_tracker.execute_..., task, cls): the
\* task e starts in a thread of the default executor and the coroutine is
\* suspended until it is done
run_in_executor(w, e) == [w EXCEPT !.executing = Append(@, e)]

\* The requests the worker is sent: two map tasks, and the reduce task of
\* the partition of the key "k" over their outputs
ServingKinds == {"map 1", "map 2", "reduce"}
ServingRequest(kind) ==
  IF kind = "map 1" THEN MapRequest(1, RefPair)
  ELSE IF kind = "map 2" THEN MapRequest(2, RefPair)
  ELSE ReduceRequest(get_partition(workers[Server].seed, << "k" >>),
                     << 1, 2 >>, RefPair)

\* POST /task/execute with a well-formed MAP or REDUCE request: the handler
\* builds the task, loads the class and hands the task to the executor
Receive(w, request) ==
  /\ posts < MaxRequests /\ LoopFree(w)
  /\ posts' = posts + 1
  /\ \E load \in { IF request.task_type = MAP
                   THEN load_user_class(workers[w], workers[w].loaded_modules, fs,
                                        request.task_data.mapper_code, "Mapper")
                   ELSE load_user_class(workers[w], workers[w].loaded_modules, fs,
                                        request.task_data.reducer_code, "Reducer") } :
       workers' = [workers EXCEPT ![w] =
                     run_in_executor(
                       [@ EXCEPT !.loaded_modules = load.loaded_modules],
                       [request |-> request, load |-> load,
                        task |-> request.task_data @@
                                 (IF request.task_type = MAP THEN MapTaskDefaults
                                  ELSE ReduceTaskDefaults)])]
  /\ last' = [worker_id |-> w, request |-> request, before |-> fs,
              out |-> << >>]
  /\ UNCHANGED << fs, job, emitted >>

\* The sequence without its i-th element
RemoveAt(seq, i) == [n \in 1..(Len(seq) - 1) |-> IF n < i THEN seq[n] ELSE seq[n + 1]]

\* The i-th executing task of worker w is done: the coroutine resumes,
\* records the result in current_tasks and the handler responds
Finish(w, i) ==
  /\ i \in 1..Len(workers[w].executing)
  /\ workers[w].blocked \in {"", "task"}
  /\ \E e \in { workers[w].executing[i] } :
     \E r \in { IF e.request.task_type = MAP
                THEN execute_map_task(workers[w], fs, e.task, e.load.cls)
                ELSE execute_reduce_task(workers[w], fs, e.task, e.load.cls)
                     @@ [emitted |-> << >>] } :
     \E after \in { [workers[w] EXCEPT
                       !.current_tasks = DictPut(@, e.task.task_id, r.result),
                       !.executing = RemoveAt(@, i),
                       !.blocked = ""] } :
       /\ fs' = r.files
       /\ workers' = [workers EXCEPT ![w] = after]
       /\ last' = [worker_id |-> w, request |-> e.request, before |-> fs,
                   out |-> DidRun([files |-> r.files, worker |-> after,
                                   result |-> r.result, load |-> e.load,
                                   calls |-> IF e.request.task_type = MAP THEN 0
                                             ELSE r.calls,
                                   emitted |-> r.emitted])]
  /\ UNCHANGED << job, emitted, posts >>

\* GET /health
health_check(w) == [http |-> 200, status |-> "healthy", worker_id |-> w.worker_id]
HealthCheck(w) ==
  /\ LoopFree(w)
  /\ last' = [worker_id |-> w, before |-> fs, out |-> health_check(workers[w]),
              request |-> [task_type |-> "HEALTH", task_data |-> [task_id |-> << >>]]]
  /\ UNCHANGED << fs, workers, job, emitted, posts >>

\* GET /task/status/{task_id}
get_task_status(w, task_id) ==
  IF DictHas(w.current_tasks, task_id)
  THEN [http |-> 200, task_id |-> task_id,
        status |-> DictGet(w.current_tasks, task_id).status,
        progress |-> IF DictGet(w.current_tasks, task_id).status = COMPLETED
                     THEN 100 ELSE 50,
        result |-> IF DictGet(w.current_tasks, task_id).status = COMPLETED
                   THEN Some(DictGet(w.current_tasks, task_id)) ELSE None]
  ELSE [http |-> 404, detail |-> "Task not found"]
GetTaskStatus(w, task_id) ==
  /\ LoopFree(w)
  /\ last' = [worker_id |-> w, before |-> fs,
              out |-> get_task_status(workers[w], task_id),
              request |-> [task_type |-> "STATUS", task_data |-> [task_id |-> task_id]]]
  /\ UNCHANGED << fs, workers, job, emitted, posts >>

\* send_heartbeat: the coroutine wakes up and posts the heartbeat with
\* requests.post, a blocking call made in the event-loop thread
heartbeat_data(w) ==
  [worker_id |-> w.worker_id, status |-> "AVAILABLE",
   current_tasks |-> [n \in 1..Len(w.current_tasks) |->
                        [task_id |-> w.current_tasks[n].k,
                         status |-> w.current_tasks[n].v.status]]]
BeginHeartbeat(w) ==
  /\ LoopFree(w)
  /\ workers' = [workers EXCEPT ![w].blocked = "heartbeat"]
  /\ last' = [worker_id |-> w, before |-> fs, out |-> << >>,
              request |-> [task_type |-> "HEARTBEAT",
                           task_data |-> heartbeat_data(workers[w])
                                         @@ [task_id |-> << >>]]]
  /\ UNCHANGED << fs, job, emitted, posts >>
\* requests.post returns or raises, and the coroutine sleeps again
EndHeartbeat(w) ==
  /\ workers[w].blocked = "heartbeat"
  /\ workers' = [workers EXCEPT ![w].blocked = ""]
  /\ UNCHANGED << fs, job, last, emitted, posts >>

InitServing == InitWorker /\ ~job.use_nfs
NextServing ==
  \/ \E kind \in ServingKinds : Receive(Server, ServingRequest(kind))
  \/ \E i \in 1..MaxRequests : Finish(Server, i)
  \/ HealthCheck(Server)
  \/ \E kind \in ServingKinds :
       GetTaskStatus(Server, ServingRequest(kind).task_data.task_id)
  \/ BeginHeartbeat(Server)
  \/ EndHeartbeat(Server)
SpecServing == InitServing /\ [][NextServing]_vars

\* The ids of the tasks worker w has received: those executing and those
\* whose result it has recorded
ReceivedTaskIds(w) ==
  {workers[w].executing[n].task.task_id : n \in 1..Len(workers[w].executing)}
  \cup {workers[w].current_tasks[n].k : n \in 1..Len(workers[w].current_tasks)}

\* C14: no worker process has more than one task executing.
C14_OneTaskInFlight ==
  \A w \in WorkerIds : Len(workers[w].executing) <= 1

\* C14: the case reached: the worker received a second request while the
\* task of the first was executing
C14_Witness ==
  /\ posts = 2
  /\ workers[Server].executing # << >>
  /\ workers[Server].current_tasks = << >>

\* C15: GET /task/status/{task_id} answers 200 with a snapshot for every
\* task the worker has received, executing or done.
C15_StatusOfReceivedTasks ==
  \A w \in WorkerIds : \A task_id \in ReceivedTaskIds(w) :
    get_task_status(workers[w], task_id).http = 200

\* C15: the case reached: the status of a task was asked while the task was
\* executing
C15_Witness ==
  /\ last.request.task_type = "STATUS"
  /\ \E n \in 1..Len(workers[Server].executing) :
       workers[Server].executing[n].task.task_id = last.request.task_data.task_id

\* C16: while a task is executing on a worker the event-loop thread is not
\* inside the task: unless it is inside the post of a heartbeat, /health
\* and /task/status are answered and the next heartbeat is sent.
C16_ServesWhileExecuting ==
  \A w \in WorkerIds :
    (workers[w].executing # << >> /\ workers[w].blocked # "heartbeat")
    => /\ LoopFree(w)
       /\ ENABLED HealthCheck(w)
       /\ \A kind \in ServingKinds :
            ENABLED GetTaskStatus(w, ServingRequest(kind).task_data.task_id)
       /\ ENABLED BeginHeartbeat(w)

\* C16: the case reached: /health was answered while a reduce task was
\* executing
C16_Witness ==
  /\ workers[Server].executing # << >>
  /\ last.request.task_type = "HEALTH" /\ last.out.http = 200
  /\ \E n \in 1..Len(workers[Server].executing) :
       workers[Server].executing[n].request.task_type = REDUCE

(***************************************************************************)
(* The program loader of a worker process                                  *)
(***************************************************************************)
MaxLoads == 3

RefTwo == << "f", "i", "l", "e", ":", "/", "/" >> \o TwoClassProgramPath
\* A file of the storage that is named like a built-in program
BuiltinNamedFile == << "/", "u", "/", "c", "h", "a", "r", "c", "o", "u", "n", "t" >>
\* The references the loader is given: URLs of programs, a URL that
\* cannot be downloaded, names of built-in programs, and paths without a
\* scheme
LoaderRefs ==
  { RefPair, RefTwo, RefNoClass, RefMissing, << "h", "t", "t", "p", ":", "/", "/", "h", "/", "l", "i", "n", "e", "l", "e", "n", "g", "t", "h" >>,
    S_wordcount, S_charcount, S_linelength, BuiltinNamedFile,
    << "j", "o", "b", "s", "/", "l", "i", "n", "e", "l", "e", "n", "g", "t", "h" >>, UserProgramPath }

\* program_loader.load_program_from_url(program_url, program_type) in the
\* process of worker w
LoadProgram(w, program_url, program_type) ==
  /\ posts < MaxLoads
  /\ posts' = posts + 1
  /\ \E r \in { load_program_from_url(
                  IF workers[w].use_nfs THEN workers[w].nfs_mount ELSE DefaultMount,
                  workers[w].loaded_modules, fs, program_url, program_type) } :
       /\ workers' = [workers EXCEPT ![w].loaded_modules = r.loaded_modules]
       /\ last' = [worker_id |-> w, before |-> workers[w].loaded_modules, out |-> r,
                   request |-> [task_type |-> "LOAD",
                                task_data |-> [task_id |-> << >>,
                                               program_url |-> program_url,
                                               program_type |-> program_type]]]
  /\ UNCHANGED << fs, job, emitted >>

\* worker.load_user_class(code_content, class_type)
LoadUserClass(w, code_content, class_type) ==
  /\ posts < MaxLoads
  /\ posts' = posts + 1
  /\ \E r \in { load_user_class(workers[w], workers[w].loaded_modules, fs,
                                code_content, class_type) } :
       /\ workers' = [workers EXCEPT ![w].loaded_modules = r.loaded_modules]
       /\ last' = [worker_id |-> w, before |-> workers[w].loaded_modules, out |-> r,
                   request |-> [task_type |-> "LOAD CLASS",
                                task_data |-> [task_id |-> << >>,
                                               code_content |-> code_content,
                                               class_type |-> class_type]]]
  /\ UNCHANGED << fs, job, emitted >>

InitLoader ==
  /\ fs = InputData @@ (BuiltinNamedFile :> << << "x" >> >>)
  /\ workers = [w \in WorkerIds |-> NewWorker(w, FALSE, DefaultMount, 0)]
  /\ job = NewJob(<< "j" >>, << FileA, FileB >>, RefWordcount, RefWordcount, FALSE)
  /\ last = NoExchange
  /\ emitted = << >>
  /\ posts = 0
NextLoader ==
  \/ \E program_url \in LoaderRefs, program_type \in {S_mapper, S_reducer} :
       LoadProgram(Server, program_url, program_type)
  \/ \E code_content \in LoaderRefs, class_type \in {"Mapper", "Reducer"} :
       LoadUserClass(Server, code_content, class_type)
SpecLoader == InitLoader /\ [][NextLoader]_vars

\* The latest call is load_program_from_url / load_user_class
LastLoad == last.request.task_type = "LOAD"
LastLoadClass == last.request.task_type = "LOAD CLASS"
OtherRole(program_type) == IF program_type = S_mapper THEN S_reducer ELSE S_mapper

\* C17: an entry of the loader's cache never changes; a call of
\* load_program_from_url(url, role) that succeeds leaves its class in the
\* cache under (url, role); a call whose (url, role) is in the cache
\* returns that class without locating or loading the file; and no call
\* returns the class the cache holds for the same url and the other role.
C17_CachedByUrlAndRole ==
  [][\A w \in WorkerIds :
       /\ \A n \in 1..Len(workers[w].loaded_modules) :
            /\ DictHas(workers'[w].loaded_modules, workers[w].loaded_modules[n].k)
            /\ DictGet(workers'[w].loaded_modules, workers[w].loaded_modules[n].k)
                 = workers[w].loaded_modules[n].v
       /\ (last'.worker_id = w /\ last'.request.task_type = "LOAD") =>
            \E url \in { last'.request.task_data.program_url } :
            \E role \in { last'.request.task_data.program_type } :
              /\ last'.out.ok =>
                   /\ DictHas(workers'[w].loaded_modules, url \o << "_" >> \o role)
                   /\ DictGet(workers'[w].loaded_modules, url \o << "_" >> \o role)
                        = last'.out.cls
              /\ DictHas(workers[w].loaded_modules, url \o << "_" >> \o role) =>
                   /\ last'.out.ok /\ ~last'.out.read
                   /\ last'.out.cls
                        = DictGet(workers[w].loaded_modules, url \o << "_" >> \o role)
              /\ (last'.out.ok /\ DictHas(workers[w].loaded_modules,
                                         url \o << "_" >> \o OtherRole(role))) =>
                   last'.out.cls # DictGet(workers[w].loaded_modules,
                                           url \o << "_" >> \o OtherRole(role))
    ]_vars

\* C17: the case reached: a program loaded for one role and then again for
\* the same role, with its other role in the cache as well
C17_Witness ==
  /\ LastLoad /\ last.out.ok /\ ~last.out.read
  /\ DictHas(last.before, last.request.task_data.program_url \o << "_" >>
                          \o OtherRole(last.request.task_data.program_type))

\* The class of the first declaration, in the order of the file, of a class
\* defined in the module that implements base
RECURSIVE FirstDeclared(_, _)
FirstDeclared(module, base) ==
  IF module = << >> THEN ""
  ELSE IF Head(module).base = base /\ Head(module).here THEN Head(module).cls
  ELSE FirstDeclared(Tail(module), base)

\* C18: a call of load_program_from_url that loads a file returns the class
\* implementing the requested interface that the file declares first.
C18_FirstDeclaredClass ==
  (LastLoad /\ last.out.ok /\ last.out.read) =>
    last.out.cls =
      FirstDeclared(
        ProgramStore[UrlParse(last.request.task_data.program_url).path],
        IF last.request.task_data.program_type = S_mapper THEN "Mapper"
        ELSE "Reducer")

\* C18: the case reached: a file that declares two mappers was loaded
C18_Witness ==
  /\ LastLoad /\ last.out.ok /\ last.out.read
  /\ last.request.task_data.program_url = RefTwo
  /\ last.request.task_data.program_type = S_mapper

\* The built-in implementations by registered name: << mapper, reducer >>
BuiltIn ==
  (S_wordcount :> << RegWordCountMapper, RegWordCountReducer >>)
  @@ (S_charcount :> << RegCharacterCountMapper, RegCharacterCountReducer >>)
  @@ (S_linelength :> << RegLineLengthMapper, RegAverageLengthReducer >>)
\* The part of a reference after its last "/"
LastSegment(ref) == From(ref, RFind(ref, SLASH) + 1)

\* C19: load_user_class of a reference without a URL scheme whose basename
\* is the name of a built-in program returns the built-in mapper or reducer
\* registered under that name.
C19_BareNameIsBuiltIn ==
  (/\ LastLoadClass
   /\ UrlParse(last.request.task_data.code_content).scheme = << >>
   /\ LastSegment(last.request.task_data.code_content) \in DOMAIN BuiltIn) =>
    last.out.cls =
      BuiltIn[LastSegment(last.request.task_data.code_content)]
        [IF last.request.task_data.class_type = "Mapper" THEN 1 ELSE 2]

\* C19: the case reached: the mapper of the bare name "charcount" was
\* resolved after a file of that name was tried
C19_Witness ==
  /\ LastLoadClass
  /\ last.request.task_data.code_content \in {S_charcount, BuiltinNamedFile}
  /\ last.request.task_data.class_type = "Mapper"
  /\ ~last.out.loaded

(***************************************************************************)
(* The retry budget of a task                                              *)
(***************************************************************************)
\* The step records the answer of a worker to the task at the head of the
\* queue
AnswerRecorded ==
  /\ job.phase \in {"map", "reduce"} /\ job.queue # << >>
  /\ job'.attempts = [job.attempts EXCEPT ![Head(job.queue)] = @ + 1]
\* The step records a failed answer to the attempt numbered n
FailedAttempt(n) ==
  /\ AnswerRecorded
  /\ last'.out.response.status = FAILED
  /\ job'.attempts[Head(job.queue)] = n
\* The step takes the job from another status to failed
BecomesFailed == job.phase # "failed" /\ job'.phase = "failed"
\* The task answered in the step is requeued behind the others
Requeued ==
  /\ job'.phase = job.phase
  /\ job'.queue = Append(Tail(job.queue), Head(job.queue))
RetryPolicy ==
  /\ \A i \in 1..Len(job'.attempts) : job'.attempts[i] <= RetryBudget
  /\ \A n \in 1..(RetryBudget - 1) : FailedAttempt(n) => Requeued
  /\ FailedAttempt(RetryBudget) => BecomesFailed

MaxMasterRequests == 3

\* The routes of app, in the order of their registration: method and path
\* template, a segment "{job_id}" being the path parameter
MasterRoutes ==
  << [method |-> "GET", path |-> << << >> >>, endpoint |-> "read_root"],
     [method |-> "GET", path |-> << << "j", "o", "b" >>, << "s", "u", "b", "m", "i", "t" >> >>,
      endpoint |-> "receive_job"],
     [method |-> "GET", path |-> << << "j", "o", "b" >>, << "s", "t", "a", "t", "u", "s" >>, << "{", "j", "o", "b", "_", "i", "d", "}" >> >>,
      endpoint |-> "send_status"],
     [method |-> "GET", path |-> << << "j", "o", "b" >>, << "r", "e", "s", "u", "l", "t" >>, << "u", "r", "l" >>, << "{", "j", "o", "b", "_", "i", "d", "}" >> >>,
      endpoint |-> "send_result_url"] >>

\* The segments of a request path after its leading "/"
PathSegments(path) == Tail(Split(path, << "/" >>))
\* The path matches the template: equal segments, a non-empty segment for
\* the parameter
RouteMatches(route, path) ==
  LET segs == PathSegments(path)
  IN  /\ path # << >> /\ Head(path) = "/"
      /\ Len(segs) = Len(route.path)
      /\ \A i \in 1..Len(segs) :
           IF route.path[i] = << "{", "j", "o", "b", "_", "i", "d", "}" >> THEN segs[i] # << >>
           ELSE segs[i] = route.path[i]
\* The indices of the routes whose path matches
MatchingRoutes(path) ==
  { i \in 1..Len(MasterRoutes) : RouteMatches(MasterRoutes[i], path) }

\* read_root()
read_root == [status_code |-> 200, body |-> [Hello |-> "World"]]
\* receive_job(data_url, code_url)
receive_job(data_url, code_url) ==
  [status_code |-> 200, body |-> [data_url |-> data_url, code_url |-> code_url]]
\* send_status(job_id)
send_status(job_id) == [status_code |-> 200, body |-> [job_id |-> job_id]]
\* send_result_url(job_id)
send_result_url(job_id) == [status_code |-> 200, body |-> [result_url |-> job_id]]

\* The answer of the framework when a parameter does not validate
Unprocessable == [status_code |-> 422, body |-> [detail |-> "validation"]]
NotFound == [status_code |-> 404, body |-> [detail |-> "Not Found"]]
MethodNotAllowed == [status_code |-> 405, body |-> [detail |-> "Method Not Allowed"]]

\* The application's answer to a request [method, path, query]: the first
\* matching route with the request's method handles it, its parameters
\* validated first (job_id: int; data_url, code_url: required)
master_app(request) ==
  LET matching == MatchingRoutes(request.path)
      allowed == { i \in matching : MasterRoutes[i].method = request.method }
      Handle(endpoint) ==
        LET job_id == ParseInt(PathSegments(request.path)[Len(PathSegments(request.path))])
        IN  IF endpoint = "read_root" THEN read_root
            ELSE IF endpoint = "receive_job"
            THEN IF DictHas(request.query, << "d", "a", "t", "a", "_", "u", "r", "l" >>)
                    /\ DictHas(request.query, << "c", "o", "d", "e", "_", "u", "r", "l" >>)
                 THEN receive_job(DictGet(request.query, << "d", "a", "t", "a", "_", "u", "r", "l" >>),
                                  DictGet(request.query, << "c", "o", "d", "e", "_", "u", "r", "l" >>))
                 ELSE Unprocessable
            ELSE IF ~job_id.ok THEN Unprocessable
            ELSE IF endpoint = "send_status" THEN send_status(job_id.val)
            ELSE send_result_url(job_id.val)
  IN  IF matching = {} THEN NotFound
      ELSE IF allowed = {} THEN MethodNotAllowed
      ELSE Handle(MasterRoutes[CHOOSE i \in allowed : \A k \in allowed : i <= k].endpoint)

\* The jobs the application has a record of: it keeps none
MasterJobs == << >>

\* The job ids requests are made with, and the requests of a client
MasterJobIds == { << "7" >>, << "1", "2" >>, << "j" >> }
NoQuery == << >>
SubmitQueries ==
  { NoQuery,
    << [k |-> << "d", "a", "t", "a", "_", "u", "r", "l" >>, v |-> << "d" >>], [k |-> << "c", "o", "d", "e", "_", "u", "r", "l" >>, v |-> << "c" >>] >> }
HttpRequest(method, path, query) ==
  [method |-> method, path |-> path, query |-> query]

\* The master answers a request
Serve(request) ==
  /\ posts' = posts + 1
  /\ \E response \in { master_app(request) } :
       /\ last' = [worker_id |-> "master", request |-> request,
                   before |-> << >>, out |-> response]
       /\ emitted' = Append(emitted, response.status_code)
  /\ UNCHANGED << fs, workers, job >>
\* The requests made of the master, MaxMasterRequests at most
GetRoot ==
  /\ posts < MaxMasterRequests
  /\ Serve(HttpRequest("GET", << "/" >>, NoQuery))
GetJobSubmit ==
  /\ posts < MaxMasterRequests
  /\ \E query \in SubmitQueries :
       Serve(HttpRequest("GET", << "/", "j", "o", "b", "/", "s", "u", "b", "m", "i", "t" >>, query))
PostJobSubmit ==
  /\ posts < MaxMasterRequests
  /\ \E query \in SubmitQueries :
       Serve(HttpRequest("POST", << "/", "j", "o", "b", "/", "s", "u", "b", "m", "i", "t" >>, query))
GetJobStatus ==
  /\ posts < MaxMasterRequests
  /\ \E id \in MasterJobIds :
       Serve(HttpRequest("GET", << "/", "j", "o", "b", "/", "s", "t", "a", "t", "u", "s", "/" >> \o id, NoQuery))
GetJobResult ==
  /\ posts < MaxMasterRequests
  /\ \E id \in MasterJobIds :
       Serve(HttpRequest("GET", << "/", "j", "o", "b", "/", "r", "e", "s", "u", "l", "t", "/" >> \o id, NoQuery))
GetJobResultUrl ==
  /\ posts < MaxMasterRequests
  /\ \E id \in MasterJobIds :
       Serve(HttpRequest("GET", << "/", "j", "o", "b", "/", "r", "e", "s", "u", "l", "t", "/", "u", "r", "l", "/" >> \o id, NoQuery))

InitMaster ==
  /\ fs = InputData
  /\ workers = [w \in WorkerIds |-> NewWorker(w, FALSE, DefaultMount, 0)]
  /\ job = NewJob(<< "j" >>, << FileA, FileB >>, RefWordcount, RefWordcount, FALSE)
  /\ last = NoExchange
  /\ emitted = << >>
  /\ posts = 0
NextMaster ==
  \/ GetRoot
  \/ GetJobSubmit
  \/ PostJobSubmit
  \/ GetJobStatus
  \/ GetJobResult
  \/ GetJobResultUrl
SpecMaster == InitMaster /\ [][NextMaster]_vars

\* The latest request asked for the result of the job with this id
AskedResultOf(id) ==
  /\ last.worker_id = "master" /\ last.request.method = "GET"
  /\ last.request.path \in { << "/", "j", "o", "b", "/", "r", "e", "s", "u", "l", "t", "/" >> \o id, << "/", "j", "o", "b", "/", "r", "e", "s", "u", "l", "t", "/", "u", "r", "l", "/" >> \o id }
\* The status of the job with this id in the master's records: << >> for an
\* unknown id
MasterStatusOf(id) ==
  IF DictHas(MasterJobs, id) THEN << DictGet(MasterJobs, id).status >> ELSE << >>

\* C22: the master answers a request for the result of a job with 200 and a
\* result_url only if the job's status is completed, with 202 if the job is
\* known and pending or running, and with 404 if the job id is unknown.
C22_ResultOnlyWhenCompleted ==
  \A id \in MasterJobIds :
    AskedResultOf(id) =>
      /\ (last.out.status_code = 200 /\ "result_url" \in DOMAIN last.out.body)
           => MasterStatusOf(id) = << "completed" >>
      /\ MasterStatusOf(id) \in { << "pending" >>, << "running" >> }
           => last.out.status_code = 202
      /\ MasterStatusOf(id) = << >> => last.out.status_code = 404

\* C22: the case reached: send_result_url answered 200 with a result_url
\* for a job id that was never submitted
C22_Witness ==
  /\ AskedResultOf(<< "7" >>)
  /\ last.out.status_code = 200 /\ last.out.body = [result_url |-> 7]
  /\ MasterStatusOf(<< "7" >>) = << >>

(***************************************************************************)
(* The client command (src/client/main.py)                                 *)
(***************************************************************************)
\* monitor_job's default timeout and the sleep between two polls, in seconds
MonitorTimeout == 300
PollInterval == 5

\* What a request of the client ends in: an HTTP response with a status
\* code and a JSON body, or an exception of the transport
HttpResponse(status_code, body) ==
  [raised |-> FALSE, status_code |-> status_code, body |-> body]
TransportError == [raised |-> TRUE, status_code |-> 0, body |-> << >>]

\* Client.submit: the answer's JSON on 201, None otherwise and on an exception
Client_submit(answer) ==
  IF answer.raised THEN None
  ELSE IF answer.status_code = 201 THEN Some(answer.body)
  ELSE None

\* (a variant that returns True for any terminal status)
monitor_poll_anyTerminal(answer) ==
  IF answer.raised THEN Some(FALSE)
  ELSE IF answer.status_code = 200
  THEN IF ~answer.body.progress_is_number THEN Some(FALSE)
       ELSE IF answer.body.status \in { Some("completed"), Some("failed") }
       THEN Some(TRUE)
       ELSE None
  ELSE None
\* One pass of the body of monitor_job's loop, given what the status request
\* ended in: Some(b) when monitor_job returns b, None when it sleeps and
\* loops.  Formatting a progress that is not a number raises inside the try.
monitor_poll(answer) ==
  IF answer.raised THEN Some(FALSE)
  ELSE IF answer.status_code = 200
  THEN IF ~answer.body.progress_is_number THEN Some(FALSE)
       ELSE IF answer.body.status \in { Some("completed"), Some("failed") }
       THEN Some(answer.body.status = Some("completed"))
       ELSE None
  ELSE None

\* The client process: its position in handle_client, the seconds elapsed
\* since monitor_job started, the status the latest poll returned and the
\* exit status of the process once it has ended
NewClient ==
  [pc |-> "submit", job_id |-> None, elapsed |-> 0, polled |-> None,
   rejected |-> FALSE, timed_out |-> FALSE, exit |-> None]

\* The answers a master can give
SubmitAnswers ==
  { HttpResponse(201, << [k |-> "job_id", v |-> << "j" >>] >>),
    HttpResponse(201, << >>),
    HttpResponse(400, << >>),
    TransportError }
StatusBodies ==
  { [status |-> s, progress_is_number |-> b] :
      s \in { None, Some("pending"), Some("running"), Some("completed"),
              Some("failed") },
      b \in BOOLEAN }
StatusAnswers ==
  { HttpResponse(200, body) : body \in StatusBodies }
    \cup { HttpResponse(404, [status |-> None, progress_is_number |-> TRUE]),
           TransportError }
ResultAnswers ==
  { HttpResponse(200, << >>), HttpResponse(202, << >>),
    HttpResponse(404, << >>), TransportError }
\* The seconds a status request takes
PollDurations == { 0, 20 }

Exchange(request, answer) ==
  [worker_id |-> "client", request |-> request, before |-> << >>, out |-> answer]

\* handle_client: client.submit(...); a falsy response ends the process
\* with sys.exit(1)
ClientSubmit ==
  /\ job.pc = "submit"
  /\ \E answer \in SubmitAnswers :
     \E response \in { Client_submit(answer) } :
       /\ last' = Exchange("POST /job/submit", answer)
       /\ job' = IF response # None /\ response[1] # << >>
                 THEN [job EXCEPT !.pc = "monitor",
                                  !.job_id = Some(DictGet(response[1], "job_id"))]
                 ELSE [job EXCEPT !.pc = "exited", !.rejected = TRUE,
                                  !.exit = Some(1)]
  /\ posts' = posts + 1
  /\ UNCHANGED << fs, workers, emitted >>
\* monitor_job: the timeout has not elapsed; one status request and what
\* follows it: the return to handle_client, which ends the process with
\* sys.exit(1) on False, or the sleep
ClientPoll ==
  /\ job.pc = "monitor" /\ job.elapsed < MonitorTimeout
  /\ \E answer \in StatusAnswers, took \in PollDurations :
     \E returned \in { monitor_poll(answer) } :
       /\ last' = Exchange("GET /job/status", answer)
       /\ job' = [job EXCEPT
            !.polled = IF answer.raised \/ answer.status_code # 200 THEN None
                       ELSE answer.body.status,
            !.elapsed = IF returned = None THEN @ + took + PollInterval
                        ELSE @ + took,
            !.pc = IF returned = None THEN "monitor"
                   ELSE IF returned[1] THEN "results" ELSE "exited",
            !.exit = IF returned = Some(FALSE) THEN Some(1) ELSE None]
  /\ posts' = posts + 1
  /\ UNCHANGED << fs, workers, emitted >>
\* monitor_job: the timeout has elapsed: it returns False and handle_client
\* ends the process with sys.exit(1)
ClientTimeout ==
  /\ job.pc = "monitor" /\ job.elapsed >= MonitorTimeout
  /\ job' = [job EXCEPT !.pc = "exited", !.timed_out = TRUE, !.exit = Some(1)]
  /\ UNCHANGED << fs, workers, last, emitted, posts >>
\* get_results: one request, every outcome of which is printed; then
\* handle_client returns and the process ends with status 0
ClientGetResults ==
  /\ job.pc = "results"
  /\ \E answer \in ResultAnswers :
       last' = Exchange("GET /job/result", answer)
  /\ job' = [job EXCEPT !.pc = "exited", !.exit = Some(0)]
  /\ posts' = posts + 1
  /\ UNCHANGED << fs, workers, emitted >>

InitClient ==
  /\ fs = InputData
  /\ workers = [w \in WorkerIds |-> NewWorker(w, FALSE, DefaultMount, 0)]
  /\ job = NewClient
  /\ last = NoExchange
  /\ emitted = << >>
  /\ posts = 0
NextClient ==
  \/ ClientSubmit
  \/ ClientPoll
  \/ ClientTimeout
  \/ ClientGetResults
SpecClient == InitClient /\ [][NextClient]_vars

\* C23: a client whose submission was rejected, whose latest poll returned
\* failed, or whose monitoring timeout elapsed without a terminal status
\* has exited with status 1, and a client that exited with status 0 had
\* completed returned by its latest status poll.
C23_ExitStatus ==
  /\ job.rejected => job.exit = Some(1)
  /\ job.polled = Some("failed") => job.exit = Some(1)
  /\ job.timed_out => job.exit = Some(1)
  /\ (job.pc = "monitor" /\ job.elapsed >= MonitorTimeout)
       => ENABLED ClientTimeout /\ ~ENABLED ClientPoll
  /\ job.exit = Some(0) => job.polled = Some("completed")
  /\ job.exit # None => job.exit \in { Some(0), Some(1) } /\ job.pc = "exited"

\* C23: the case reached: the client exited with status 1 at the timeout
\* after polls that never returned a terminal status
C23_Witness ==
  /\ job.timed_out /\ job.exit = Some(1)
  /\ job.elapsed >= MonitorTimeout
  /\ job.polled = Some("running")

(***************************************************************************)
(* Where a reduce task writes                                              *)
(***************************************************************************)
\* The latest exchange ran a reduce task to a completed result
LastReduceCompleted == LastRanReduce /\ last.out.result.status = COMPLETED

\* The file of the reduce directory of the task's job under the directory two
\* levels above the task's output_file, as worker w sees it
ReduceDirFileOf(w, task) ==
  Dirname(Dirname(ToLocal(w, task.output_file)))
    \o << "/", "j", "o", "b", "s", "/" >> \o JobIdOf(task.task_id) \o << "/", "i", "n", "t", "e", "r", "m", "e", "d", "i", "a", "t", "e", "/", "r", "e", "d", "u", "c", "e", "/", "p", "a", "r", "t", "-" >>
    \o Format05d(task.partition_id) \o << ".", "t", "x", "t" >>
\* The lines the reducer of the latest task emits over the shuffled file of
\* the task's partition
LastReducerOutput ==
  ReduceLines(last.out.load.cls,
              fs[ShuffledFileOf(JobIdOf(LastTask.task_id), LastTask.partition_id)]).out

\* C24 (as stated): after a completed reduce task the file at the task's
\* output_file, rewritten to the worker's mount, holds the reducer's output,
\* and the result's output_files is the one path output_file.
C24_WritesOutputFile ==
  LastReduceCompleted =>
    /\ ToLocal(LastWorker, LastTask.output_file) \in DOMAIN fs
    /\ fs[ToLocal(LastWorker, LastTask.output_file)] = LastReducerOutput
    /\ last.out.result.output_files = << LastTask.output_file >>

\* C24 (amended): after a completed reduce task the file
\* jobs/<job_id>/intermediate/reduce/part-<partition_id, 5 digits>.txt under
\* the directory two levels above the task's output_file, rewritten to the
\* worker's mount, holds the reducer's output, and the result's output_files
\* is that one path rewritten to the canonical prefix.
C24_WritesReduceDirFile ==
  LastReduceCompleted =>
    /\ ReduceDirFileOf(LastWorker, LastTask) \in DOMAIN fs
    /\ fs[ReduceDirFileOf(LastWorker, LastTask)] = LastReducerOutput
    /\ last.out.result.output_files
         = << ToServer(LastWorker, ReduceDirFileOf(LastWorker, LastTask)) >>

\* C24: the case reached: a completed reduce task on a worker with shared
\* storage whose output_file was never created, the reducer's two output
\* lines being in the file of the reduce directory
C24_Witness ==
  /\ LastReduceCompleted /\ LastWorker.use_nfs
  /\ ToLocal(LastWorker, LastTask.output_file) \notin DOMAIN fs
  /\ last.out.result.output_files # << LastTask.output_file >>
  /\ Len(fs[ReduceDirFileOf(LastWorker, LastTask)]) = 2

(***************************************************************************)
(* The reducer's invocations within a reduce task                          *)
(***************************************************************************)
\* The distinct keys of the records of the latest reduce task's partition
\* (the records of its input files), ascending
LastPartitionKeys ==
  SortedKeys(RecordsOfLines(LinesOfPresent(last.before, LastInputs)))
\* The shuffled file the latest reduce task left
LastShuffled ==
  fs[ShuffledFileOf(JobIdOf(LastTask.task_id), LastTask.partition_id)]

\* C25: a completed reduce task invoked the reducer over the complete
\* shuffled file of its partition, once for each distinct key of the
\* partition's records, in ascending order of the key, and its output file
\* holds the pairs the invocations emitted, in that order.
C25_ReducerOncePerKeyInOrder ==
  LastReduceCompleted =>
    /\ [l \in 1..Len(LastShuffled) |-> LineKey(LastShuffled[l])] = LastPartitionKeys
    /\ last.out.calls = Len(LastPartitionKeys)
    /\ fs[ReduceDirFileOf(LastWorker, LastTask)] = LastReducerOutput

\* C25: the case reached: a completed reduce task whose partition holds two
\* keys, of which the reducer was invoked for one only
C25_Witness ==
  /\ LastReduceCompleted
  /\ Len(LastPartitionKeys) = 2
  /\ last.out.calls = 1
  /\ Len(LastShuffled) = 1

(***************************************************************************)
(* The rewriting of paths between the canonical prefix and a worker's mount *)
(***************************************************************************)
\* Paths of up to MaxSegments pieces, each the canonical prefix, the default
\* mount or a plain name
MaxSegments == 3
PathPieces == { SharedRoot, DefaultMount, << "/", "j", "o", "b", "s" >>, << "/", "a", ".", "t", "x", "t" >> }
RECURSIVE PathsOf(_)
PathsOf(n) ==
  IF n = 0 THEN { << >> }
  ELSE PathsOf(n - 1) \cup { p \o q : p \in PathsOf(n - 1), q \in PathPieces }
RewrittenPaths == PathsOf(MaxSegments) \ { << >> }
\* The mounts of the workers
Mounts == { DefaultMount, << "/", "d", "a", "t", "a" >> }

\* A worker with either setting of use_nfs and a path it is given
InitRewrite ==
  \E use_nfs \in BOOLEAN, mount \in Mounts, path \in RewrittenPaths :
    /\ fs = InputData
    /\ workers = [w \in WorkerIds |-> NewWorker(w, use_nfs, mount, 0)]
    /\ job = NewJob(<< "j" >>, << FileA, FileB >>, RefWordcount, RefWordcount,
                    use_nfs)
    /\ last = [NoExchange EXCEPT !.worker_id = Server, !.request = path]
    /\ emitted = << >>
    /\ posts = 0
\* The worker rewrites the path it was given to its mount
RewriteInbound ==
  /\ emitted = << >>
  /\ emitted' = << ToLocal(workers[Server], last.request) >>
  /\ posts' = posts + 1
  /\ UNCHANGED << fs, workers, job, last >>
\* The worker rewrites the local path back to the canonical prefix
RewriteOutbound ==
  /\ Len(emitted) = 1
  /\ emitted' = Append(emitted, ToServer(workers[Server], emitted[1]))
  /\ posts' = posts + 1
  /\ UNCHANGED << fs, workers, job, last >>
NextRewrite == RewriteInbound \/ RewriteOutbound
SpecRewrite == InitRewrite /\ [][NextRewrite]_vars

\* path with its leading prefix old, if it has one, replaced by new
ReplacePrefix(path, old, new) ==
  IF Len(path) >= Len(old) /\ UpTo(path, Len(old)) = old
  THEN new \o From(path, Len(old))
  ELSE path

\* C26: with shared storage the inbound rewrite replaces a leading
\* /shared/gridmr by the worker's mount and nothing else, the outbound
\* rewrite a leading mount by /shared/gridmr and nothing else, and a
\* canonical path rewritten inbound and then outbound is the original path;
\* without shared storage both rewrites return the path they are given.
C26_PrefixRewriteRoundTrip ==
  LET w == workers[Server]
      path == last.request
  IN  /\ Len(emitted) >= 1 =>
           emitted[1] = IF w.use_nfs
                        THEN ReplacePrefix(path, SharedRoot, w.nfs_mount)
                        ELSE path
      /\ Len(emitted) = 2 =>
           /\ emitted[2] = IF w.use_nfs
                           THEN ReplacePrefix(emitted[1], w.nfs_mount, SharedRoot)
                           ELSE emitted[1]
           /\ (w.use_nfs /\ UpTo(path, Len(SharedRoot)) = SharedRoot)
                => emitted[2] = path

\* C26: the case reached: with shared storage, a canonical path that holds
\* the worker's mount further on came back from the two rewrites as another
\* path
C26_Witness ==
  /\ workers[Server].use_nfs
  /\ Len(emitted) = 2
  /\ last.request = SharedRoot \o DefaultMount \o << "/", "a", ".", "t", "x", "t" >>
  /\ emitted[1] = DefaultMount \o DefaultMount \o << "/", "a", ".", "t", "x", "t" >>
  /\ emitted[2] = SharedRoot \o SharedRoot \o << "/", "a", ".", "t", "x", "t" >>

(***************************************************************************)
(* Map tasks over windows of one input file                                *)
(***************************************************************************)
\* A worker executes up to MaxSplitTasks map tasks over windows of a.txt,
\* the bounds of a window up to MaxSplitIndex
MaxSplitTasks == 2
MaxSplitIndex == 4
SplitStarts == 0..MaxSplitIndex
SplitEnds == { None } \cup { Some(e) : e \in 0..MaxSplitIndex }
\* The map task numbered n over the window of FileA
SplitTask(n, split_start, split_end) ==
  [task_id |-> job.job_id \o S__map_ \o NatToStr(n),
   input_file |-> FileA, output_dir |-> SharedRoot,
   mapper_code |-> << >>, mapper_url |-> << >>,
   split_start |-> split_start, split_end |-> split_end]
\* execute_map_task(task, mapper_class) with the mapper that emits the pair
\* it is given; the pairs of each task are kept in emitted
ExecuteSplit(w, split_start, split_end) ==
  /\ posts < MaxSplitTasks
  /\ posts' = posts + 1
  /\ \E task \in { SplitTask(posts, split_start, split_end) } :
     \E r \in { execute_map_task(workers[w], fs, task, UserNumberMapper) } :
       /\ fs' = r.files
       /\ last' = [worker_id |-> w,
                   request |-> [task_type |-> MAP, task_data |-> task],
                   before |-> fs, out |-> r]
       /\ emitted' = Append(emitted, [task |-> task, result |-> r.result,
                                      pairs |-> r.emitted])
  /\ UNCHANGED << workers, job >>
InitSplits ==
  /\ InitWith({ << "j" >> }, {0})
  /\ job.mapper_url = RefWordcount
NextSplits ==
  \E split_start \in SplitStarts, split_end \in SplitEnds :
    ExecuteSplit(Server, split_start, split_end)
SpecSplits == InitSplits /\ [][NextSplits]_vars

\* The lines of FileA, and the pairs (i, line i) for the 0-based indices i of
\* its lines with a <= i < b, ascending
SplitLines == InputData[FileA]
WindowPairs(a, b) ==
  LET lo == a + 1
      hi == IF b < Len(SplitLines) THEN b ELSE Len(SplitLines)
  IN  IF lo > hi THEN << >>
      ELSE [n \in 1..(hi - lo + 1) |->
              KeyValue(IntToStr(a + n - 1), Strip(SplitLines[lo + n - 1]))]
\* The end of a task's window: the end of the file when split_end is unset
WindowEnd(task) ==
  IF task.split_end = None THEN Len(SplitLines) ELSE task.split_end[1]
IsWindow(task) == task.split_start <= WindowEnd(task)

ExecutesAgain ==
  /\ Posted /\ last.out.ran
  /\ last'.worker_id = last.worker_id
  /\ last'.request = last.request
  /\ last'.out.ran

\* C28: a step that executes the latest map or reduce task again on the
\* same worker, no file having changed since, returns the same status and
\* the same output_files and leaves every file of the storage (map,
\* shuffled and reduce output files among them) with the content it had
\* after the first execution.
C28_ExecutingAgainChangesNothing ==
  [][ExecutesAgain =>
       /\ last'.out.result.status = last.out.result.status
       /\ last'.out.result.output_files = last.out.result.output_files
       /\ fs' = fs]_vars

\* C28: the case reached: a completed reduce task that wrote a shuffled
\* file and an output file of two lines was executed a second time
C28_Witness ==
  /\ posts >= 3
  /\ LastReduceCompleted
  /\ last.before = fs
  /\ Len(LastShuffled) = 2
  /\ Len(fs[ReduceDirFileOf(LastWorker, LastTask)]) = 2

(***************************************************************************)
(* The TaskResult of an executed task                                      *)
(***************************************************************************)
\* C29: the TaskResult of an executed map or reduce task has status
\* COMPLETED or FAILED; a FAILED one has no output_files and an
\* error_message; a COMPLETED one of a reduce task has exactly one output
\* file and no error_message.
C29_ResultIsTerminal ==
  (LastRanMap \/ LastRanReduce) =>
    /\ last.out.result.status \in { COMPLETED, FAILED }
    /\ last.out.result.status = FAILED =>
         /\ last.out.result.output_files = << >>
         /\ last.out.result.error_message # None
    /\ (last.out.result.status = COMPLETED /\ last.request.task_type = REDUCE) =>
         /\ Len(last.out.result.output_files) = 1
         /\ last.out.result.error_message = None

\* C29: the case reached: a reduce task whose reducer raised after the
\* shuffled file was written returned a FAILED result
C29_Witness ==
  /\ LastRanReduce
  /\ last.out.result.status = FAILED
  /\ last.out.result.error_message # None
  /\ last.out.calls >= 1
  /\ LastShuffled # << >>

(***************************************************************************)
(* Worker.start: registration, then the heartbeat task and the server      *)
(***************************************************************************)
MaxStartPosts == 2
MaxHeartbeats == 2

\* What requests.post to /worker/register ends in: a response with a status
\* code and a body that is JSON or not, or an exception
RegisterAnswers ==
  { [raised |-> FALSE, status_code |-> 200, json |-> TRUE],
    [raised |-> FALSE, status_code |-> 200, json |-> FALSE],
    [raised |-> FALSE, status_code |-> 201, json |-> TRUE],
    [raised |-> FALSE, status_code |-> 500, json |-> FALSE],
    [raised |-> TRUE, status_code |-> 0, json |-> FALSE] }

\* (a variant that takes any response for a success)
register_with_master_anyResponse(answer) == ~answer.raised
\* Worker.register_with_master, given what its request ended in: True on
\* status 200 (response.json() raises on a body that is not JSON), False on
\* another status and on an exception
register_with_master(answer) ==
  IF answer.raised THEN FALSE
  ELSE IF answer.status_code = 200 THEN answer.json
  ELSE FALSE

\* Worker.start up to "await server.serve()": the worker registers; on False
\* start returns and the process ends; on True the heartbeat task is
\* created and the server starts.  The requests the worker sends to the
\* master are kept in emitted.
StartWorker(w) ==
  /\ workers[w].pc = "created"
  /\ \E answer \in RegisterAnswers :
       /\ workers' = [workers EXCEPT ![w].pc =
                        IF register_with_master(answer) THEN "serving"
                        ELSE "exited"]
       /\ emitted' = Append(emitted, [kind |-> "register", answer |-> answer])
  /\ UNCHANGED << fs, job, last, posts >>
\* send_heartbeat: one pass of its loop, in the task Worker.start created
SendHeartbeat(w) ==
  /\ workers[w].pc = "serving"
  /\ Cardinality({ n \in 1..Len(emitted) : emitted[n].kind = "heartbeat" })
       < MaxHeartbeats
  /\ emitted' = Append(emitted, [kind |-> "heartbeat",
                                 answer |-> heartbeat_data(workers[w])])
  /\ UNCHANGED << fs, workers, job, last, posts >>
\* POST /task/execute reaches the server of a worker that serves
ExecuteWhenServing(w) ==
  /\ workers[w].pc = "serving"
  /\ posts < MaxStartPosts
  /\ \E kind \in ServingKinds : Post(w, ServingRequest(kind))
\* POST /task/execute to a worker whose server does not run: the connection
\* is refused
ConnectionRefused == [http |-> 0, task_id |-> << >>, status |-> "",
                      result |-> None, error |-> Some("ConnectionError")]
RefuseWhenNotServing(w) ==
  /\ workers[w].pc # "serving"
  /\ \E kind \in ServingKinds :
       last' = [worker_id |-> w, request |-> ServingRequest(kind),
                before |-> fs,
                out |-> NoRun(workers[w], fs, ConnectionRefused)]
  /\ UNCHANGED << fs, workers, job, emitted, posts >>

InitStart ==
  /\ fs = InputData
  /\ workers = [w \in WorkerIds |->
                  [NewWorker(w, FALSE, DefaultMount, 0) EXCEPT !.pc = "created"]]
  /\ job = NewJob(<< "j" >>, << FileA, FileB >>, RefPair, RefPair, FALSE)
  /\ last = NoExchange
  /\ emitted = << >>
  /\ posts = 0
NextStart ==
  \/ StartWorker(Server)
  \/ SendHeartbeat(Server)
  \/ ExecuteWhenServing(Server)
  \/ RefuseWhenNotServing(Server)
SpecStart == InitStart /\ [][NextStart]_vars

\* The worker's registration was answered with HTTP 200
RegisteredWith200 ==
  /\ emitted # << >>
  /\ emitted[1].kind = "register"
  /\ ~emitted[1].answer.raised /\ emitted[1].answer.status_code = 200
\* The worker's registration failed: an answer other than 200, or an
\* exception of the transport
RegistrationFailed ==
  /\ emitted # << >>
  /\ emitted[1].kind = "register"
  /\ (emitted[1].answer.raised \/ emitted[1].answer.status_code # 200)
HeartbeatsSent == { n \in 1..Len(emitted) : emitted[n].kind = "heartbeat" }
TasksExecuted ==
  posts > 0 \/ workers[Server].current_tasks # << >> \/ (Posted /\ last.out.ran)

\* C30: a worker serves POST /task/execute, has executed a task or has sent
\* a heartbeat only if its registration was answered with HTTP 200; a worker
\* whose registration failed serves nothing, has executed no task and sent
\* no heartbeat, and can do neither any more.
C30_RegisteredBeforeServing ==
  /\ (workers[Server].pc = "serving" \/ TasksExecuted \/ HeartbeatsSent # {})
       => RegisteredWith200
  /\ RegistrationFailed =>
       /\ workers[Server].pc = "exited"
       /\ ~TasksExecuted /\ HeartbeatsSent = {}
       /\ ~ENABLED ExecuteWhenServing(Server)
       /\ ~ENABLED SendHeartbeat(Server)

\* C30: the case reached: a worker whose registration was answered 500 was
\* sent a task and refused the connection
C30_Witness ==
  /\ RegistrationFailed /\ emitted[1].answer.status_code = 500
  /\ workers[Server].pc = "exited"
  /\ Posted /\ ~last.out.ran /\ last.out.response = ConnectionRefused

=============================================================================
